---------------------------- MODULE Spec2Model ----------------------------
(* State-machine model of PokemonMapScene (src/scenes/pokemon_map.py):     *)
(* the overworld walk, the opponent cutscene, the battle intro, the attack *)
(* sequence, the end sequence and the restart key; and of SceneManager     *)
(* (src/your.app.folder/scene_manager.py), in the record manager.          *)
(*                                                                         *)
(* The scene object is one record, scene, whose fields carry the names of  *)
(* the attributes of the Python object.  Attributes that the code creates  *)
(* and removes at run time (hasattr / delattr) are tracked by name in the  *)
(* field attrs.  The loaded media are a record, assets, fixed at           *)
(* construction: a width of 0 stands for a file that failed to load.       *)
(* Times are integers in milliseconds.  Frame-animation accumulators are   *)
(* kept in hundredths (0.1 is 10, 0.15 is 15, 0.4 is 40, 0.03 is 3).       *)
EXTENDS Integers, Sequences, FiniteSets, TLC

VARIABLES scene, assets, obs, manager

vars == <<scene, assets, obs, manager>>

---------------------------------------------------------------------------
(* Program constants.                                                      *)

SCREEN_WIDTH == 480
SCREEN_HEIGHT == 320
PLAYER_SPEED == 3
grid_size == 32
player_width == 32
player_height == 42
margin == 10

walkable_rectangles == << <<15, 4, 16, 7>>, <<14, 8, 16, 12>> >>
walkable_cells == << <<17, 8>>, <<17, 9>> >>

(* Size of map_background.png, which the scene adopts as the map size.     *)
map_width == 1024
map_height == 1024

Max(a, b) == IF a >= b THEN a ELSE b
Min(a, b) == IF a <= b THEN a ELSE b

---------------------------------------------------------------------------
(* is_cell_walkable_check: the two loops of the helper, each returning     *)
(* True at the first match.                                                *)

RECURSIVE InRectangles(_, _, _)
InRectangles(rects, cell_x, cell_y) ==
    IF rects = << >> THEN FALSE
    ELSE LET r == Head(rects) IN
         IF r[1] <= cell_x /\ cell_x <= r[3] /\ r[2] <= cell_y /\ cell_y <= r[4]
         THEN TRUE
         ELSE InRectangles(Tail(rects), cell_x, cell_y)

RECURSIVE InCells(_, _, _)
InCells(cells, cell_x, cell_y) ==
    IF cells = << >> THEN FALSE
    ELSE LET c == Head(cells) IN
         IF cell_x = c[1] /\ cell_y = c[2] THEN TRUE
         ELSE InCells(Tail(cells), cell_x, cell_y)

(* The helper with the far edges of a rectangle left out.                  *)
is_cell_walkable_half_open(cell_x, cell_y) ==
    \/ \E i \in 1..Len(walkable_rectangles) :
          LET r == walkable_rectangles[i]
          IN  r[1] <= cell_x /\ cell_x < r[3] /\ r[2] <= cell_y /\ cell_y < r[4]
    \/ InCells(walkable_cells, cell_x, cell_y)

(* The helper with every rectangle one cell too wide on each side.         *)
is_cell_walkable_wide(cell_x, cell_y) ==
    \/ \E i \in 1..Len(walkable_rectangles) :
          LET r == walkable_rectangles[i]
          IN  /\ r[1] - 1 <= cell_x /\ cell_x <= r[3] + 1
              /\ r[2] <= cell_y /\ cell_y <= r[4]
    \/ InCells(walkable_cells, cell_x, cell_y)

is_cell_walkable_check(cell_x, cell_y) ==
    IF InRectangles(walkable_rectangles, cell_x, cell_y) THEN TRUE
    ELSE InCells(walkable_cells, cell_x, cell_y)

---------------------------------------------------------------------------
(* The loaded media.  Widths and heights are those of the image files;     *)
(* 0 stands for a file that failed to load (the attribute is None).        *)
(* *_frames is the length of the frame list built from a sheet.            *)

StdAssets ==
    [ lugia_sprites        |-> 3,
      exclamation_image    |-> TRUE,
      dialog_image_h       |-> 60,
      fighting_background  |-> TRUE,
      battle_dialog_w      |-> 480, battle_dialog_h      |-> 96,
      fight_ui_w           |-> 240, fight_ui_h           |-> 96,
      combat_ui_w          |-> 480, combat_ui_h          |-> 96,
      bag_screen           |-> TRUE,
      pokemon_screen       |-> TRUE,
      battle_grass_w       |-> 256, battle_grass_h       |-> 64,
      battle_pokemonstat_w |-> 200, battle_pokemonstat_h |-> 58,
      battle_water_w       |-> 256, battle_water_h       |-> 64,
      battle_lugia_w       |-> 64,  battle_lugia_h       |-> 64,
      battle_lugia_frames  |-> 2,
      battle_venu_w        |-> 64,  battle_venu_h        |-> 64,
      battle_venu_frames   |-> 2,
      battle_venu_stat     |-> TRUE,
      battle_trainer_sprites |-> 3,
      prompt_pulse_charge_frames |-> 2,
      end_scene_venusaur_w |-> 200, end_scene_venusaur_h |-> 200,
      end_scene_shine_frames |-> 2,
      end_scene_bg_w       |-> 240, end_scene_bg_h       |-> 320,
      end_scene_shine_h    |-> 76,
      end_scene_cursor     |-> TRUE,
      end_scene_press_r    |-> TRUE,
      sfx                  |-> TRUE,
      rounds_short         |-> {} ]

---------------------------------------------------------------------------
(* __init__: movement, cutscene sprite, exclamation mark, dialog and fade. *)

lugia_target_x == ((map_width \div 32) \div 2 - 3) * 32 + 16 + 32 - 16
lugia_target_y == ((map_height \div 32) \div 4 - 5) * 32
lugia_start_x == lugia_target_x + 50

(* lugia_x is kept in units of 1/LugiaXUnit pixel, the denominator of the  *)
(* interpolation in the flying_in branch.                                  *)
LugiaXUnit == 2 * lugia_target_y + 400

InitMovement ==
    [ player_world_x |-> 15 * grid_size + grid_size \div 2,
      player_world_y |-> 11 * grid_size + grid_size \div 2,
      camera_x |-> 0, camera_y |-> 0,
      moving_up |-> FALSE, moving_down |-> FALSE,
      moving_left |-> FALSE, moving_right |-> FALSE,
      current_direction |-> 1,
      (* character_sprite (AnimatedSprite) *)
      sprite_current_frame |-> 0, sprite_animation_time |-> 0 ]

(* lugia_y is kept in half pixels: lugia_fly_speed is 2.5.                 *)
InitCutscene ==
    [ lugia_current_frame |-> 0, lugia_animation_time |-> 0,
      lugia_state |-> "hidden",
      lugia_x |-> lugia_start_x * LugiaXUnit, lugia_y |-> 2 * (0 - 200),
      lugia_animation_complete |-> FALSE ]

(* exclamation_show_time holds pygame.time.get_ticks() of the moment the   *)
(* mark finished sliding up; the model keeps the time elapsed since then.  *)
InitExclamation ==
    [ exclamation_visible |-> FALSE, exclamation_x |-> 0, exclamation_y |-> 0,
      exclamation_target_y |-> 0, exclamation_alpha |-> 255,
      exclamation_state |-> "hidden", exclamation_show_time |-> 0 ]

InitDialog ==
    [ dialog_visible |-> FALSE, dialog_slide_y |-> SCREEN_HEIGHT,
      dialog_fully_visible |-> FALSE, dialog_text |-> "",
      battle_text_state |-> "lugia", battle_text_lugia_alpha |-> 255,
      battle_text_venusaur_alpha |-> 0, battle_text_fading |-> FALSE,
      fade_state |-> "none", battle_music_started |-> FALSE ]

(* dialog_pause_start_time is None (here -1) or a get_ticks() stamp; the   *)
(* model keeps the time elapsed since the stamp.  music names the track    *)
(* loaded into pygame.mixer.music, played the calls of Sound.play() made   *)
(* by the handler that ran last.                                           *)
InitSound ==
    [ exclamation_sound_played |-> FALSE, trainer_animation_sound_played |-> FALSE,
      venusaur_slide_sound_played |-> FALSE, spore_sound_played |-> FALSE,
      spike_cannon_sound_played |-> FALSE, collision_sound_playing |-> FALSE,
      audio_muted |-> FALSE, lugia_cry_played |-> FALSE,
      fade_alpha |-> 0, fade_complete |-> FALSE,
      dialog_pause_start_time |-> 0 - 1,
      battle_animations_started |-> FALSE,
      music |-> "map", played |-> {} ]

---------------------------------------------------------------------------
(* update_camera and on_enter.                                             *)

update_camera(s) ==
    LET target_camera_x == s.player_world_x - SCREEN_WIDTH \div 2
        target_camera_y == s.player_world_y - SCREEN_HEIGHT \div 2
        max_camera_x == Max(0, map_width - SCREEN_WIDTH)
        max_camera_y == Max(0, map_height - SCREEN_HEIGHT)
    IN  [s EXCEPT !.camera_x = Max(0, Min(target_camera_x, max_camera_x)),
                  !.camera_y = Max(0, Min(target_camera_y, max_camera_y))]

on_enter(s) ==
    LET s1 == [s EXCEPT !.player_world_x = 15 * grid_size + grid_size \div 2,
                        !.player_world_y = 11 * grid_size + grid_size \div 2]
        s2 == update_camera(s1)
    IN  [s2 EXCEPT !.moving_up = FALSE, !.moving_down = FALSE,
                   !.moving_left = FALSE, !.moving_right = FALSE,
                   !.current_direction = 1,
                   !.music = "map", !.battle_music_started = FALSE,
                   !.exclamation_sound_played = FALSE,
                   !.trainer_animation_sound_played = FALSE,
                   !.venusaur_slide_sound_played = FALSE]

---------------------------------------------------------------------------
(* update(): player movement (the part before the camera update).          *)

MovementLocked(s) ==
    s.dialog_visible \/ (s.lugia_state # "hidden" /\ ~s.lugia_animation_complete)

MoveDx(s) ==
    IF MovementLocked(s) THEN 0
    ELSE (IF s.moving_left THEN 0 - PLAYER_SPEED ELSE 0)
         + (IF s.moving_right THEN PLAYER_SPEED ELSE 0)

MoveDy(s) ==
    IF MovementLocked(s) THEN 0
    ELSE (IF s.moving_up THEN 0 - PLAYER_SPEED ELSE 0)
         + (IF s.moving_down THEN PLAYER_SPEED ELSE 0)

MoveDirection(s) ==
    IF MovementLocked(s) THEN s.current_direction
    ELSE IF s.moving_down THEN 0
    ELSE IF s.moving_up THEN 1
    ELSE IF s.moving_right THEN 2
    ELSE IF s.moving_left THEN 3
    ELSE s.current_direction

(* The proposed position: old position plus delta, kept inside the map.    *)
ProposedX(s) ==
    Max(margin, Min(s.player_world_x + MoveDx(s), map_width - player_width - margin))

ProposedY(s) ==
    Max(margin, Min(s.player_world_y + MoveDy(s), map_height - player_height - margin))

CellX(x) == (x + player_width \div 2) \div grid_size
CellY(y) == (y + player_height \div 2) \div grid_size

ProposedWalkable(s) == is_cell_walkable_check(CellX(ProposedX(s)), CellY(ProposedY(s)))

(* The constrained position: the 32 x 42 sprite is pushed back inside the  *)
(* cell of the proposed centre on each side whose neighbour is closed.     *)
(* Every test uses the sprite edges computed before any push.              *)
ConstrainedX(s) ==
    LET new_x == ProposedX(s)
        pcx == CellX(new_x)
        pcy == CellY(ProposedY(s))
        sprite_left == new_x - (32 - player_width) \div 2
        sprite_right == sprite_left + 32
        cell_left == pcx * grid_size
        cell_right == (pcx + 1) * grid_size
        x1 == IF sprite_left < cell_left /\ ~is_cell_walkable_check(pcx - 1, pcy)
              THEN new_x + (cell_left - sprite_left) ELSE new_x
    IN  IF sprite_right > cell_right /\ ~is_cell_walkable_check(pcx + 1, pcy)
        THEN x1 - (sprite_right - cell_right) ELSE x1

ConstrainedY(s) ==
    LET new_y == ProposedY(s)
        pcx == CellX(ProposedX(s))
        pcy == CellY(new_y)
        sprite_top == new_y
        sprite_bottom == new_y + 42
        cell_top == pcy * grid_size
        cell_bottom == (pcy + 1) * grid_size
        y1 == IF sprite_top < cell_top /\ ~is_cell_walkable_check(pcx, pcy - 1)
              THEN new_y + (cell_top - sprite_top) ELSE new_y
    IN  IF sprite_bottom > cell_bottom /\ ~is_cell_walkable_check(pcx, pcy + 1)
        THEN y1 - (sprite_bottom - cell_bottom) ELSE y1

(* The first collision sound: current cell open, proposed cell closed.     *)
BlockedSound(s) ==
    /\ is_cell_walkable_check(CellX(s.player_world_x), CellY(s.player_world_y))
    /\ ~ProposedWalkable(s)
    /\ assets.sfx

(* The second collision sound: on an edge cell, gate open, and the cell in *)
(* the direction of travel closed.                                         *)
EdgeSound(s) ==
    LET pcx == CellX(ProposedX(s))
        pcy == CellY(ProposedY(s))
        dx == MoveDx(s)
        dy == MoveDy(s)
        is_edge == \/ ~is_cell_walkable_check(pcx, pcy - 1)
                   \/ ~is_cell_walkable_check(pcx, pcy + 1)
                   \/ ~is_cell_walkable_check(pcx - 1, pcy)
                   \/ ~is_cell_walkable_check(pcx + 1, pcy)
                   \/ InCells(walkable_cells, pcx, pcy)
        direction_cell_x == IF dx > 0 THEN pcx + 1 ELSE IF dx < 0 THEN pcx - 1 ELSE pcx
        direction_cell_y == IF dy > 0 THEN pcy + 1 ELSE IF dy < 0 THEN pcy - 1 ELSE pcy
    IN  /\ is_edge /\ assets.sfx /\ ~s.collision_sound_playing
        /\ ~is_cell_walkable_check(direction_cell_x, direction_cell_y)

(* The movement step without the walkability test of the proposed cell:   *)
(* the proposed position is committed wherever it lies.                    *)
UpdateMovementUnchecked(s) ==
    LET s1 == [s EXCEPT !.current_direction = MoveDirection(s)]
    IN  IF MoveDx(s) = 0 /\ MoveDy(s) = 0 THEN s1
        ELSE [s1 EXCEPT !.player_world_x = ProposedX(s),
                        !.player_world_y = ProposedY(s)]

UpdateMovement(s) ==
    LET s1 == [s EXCEPT !.current_direction = MoveDirection(s)]
    IN  IF MoveDx(s) = 0 /\ MoveDy(s) = 0 THEN s1
        ELSE IF ~ProposedWalkable(s)
        THEN [s1 EXCEPT !.played = IF BlockedSound(s) THEN @ \cup {"collision"} ELSE @]
        ELSE LET s2 == IF EdgeSound(s)
                       THEN [s1 EXCEPT !.played = @ \cup {"collision"},
                                       !.collision_sound_playing = TRUE]
                       ELSE s1
                 cx == ConstrainedX(s)
                 cy == ConstrainedY(s)
             IN  IF is_cell_walkable_check(CellX(cx), CellY(cy))
                 THEN [s2 EXCEPT !.player_world_x = cx, !.player_world_y = cy]
                 ELSE s2

(* The sprite animated whenever a movement flag is set, locked or not.     *)
UpdateSpriteWhileLocked(s) ==
    LET is_moving == s.moving_up \/ s.moving_down \/ s.moving_left \/ s.moving_right
        t == s.sprite_animation_time + 15
    IN  IF ~is_moving
        THEN [s EXCEPT !.sprite_current_frame = 0, !.sprite_animation_time = 0]
        ELSE IF t >= 100
        THEN [s EXCEPT !.sprite_animation_time = 0,
                       !.sprite_current_frame = (@ + 1) % 4]
        ELSE [s EXCEPT !.sprite_animation_time = t]

(* AnimatedSprite.update as called after the camera update.                *)
UpdateSprite(s) ==
    LET can_move == s.lugia_state = "hidden" \/ s.lugia_animation_complete
        is_moving == /\ ~s.dialog_visible /\ can_move
                     /\ (s.moving_up \/ s.moving_down \/ s.moving_left \/ s.moving_right)
        t == s.sprite_animation_time + 15
    IN  IF ~is_moving
        THEN [s EXCEPT !.sprite_current_frame = 0, !.sprite_animation_time = 0]
        ELSE IF t >= 100
        THEN [s EXCEPT !.sprite_animation_time = 0,
                       !.sprite_current_frame = (@ + 1) % 4]
        ELSE [s EXCEPT !.sprite_animation_time = t]

---------------------------------------------------------------------------
(* __init__: battle menu, attack sequence, end sequence.                   *)
(* None is << >> for a grid cell.  The two screen-shake offsets and the    *)
(* rotation angle are drawn from random.uniform and math.sin: the model    *)
(* keeps only whether they are at rest (0) or not (1).                     *)

InitBattleUI ==
    [ battle_dialog_alpha |-> 0, battle_dialog_visible |-> FALSE,
      fight_ui_alpha |-> 0,
      fight_ui_hovered_cell |-> << >>, fight_ui_selected_cell |-> << >>,
      combat_ui_hovered_cell |-> << >>, screen_text_hovered |-> FALSE,
      current_screen |-> "battle",
      run_text_visible |-> FALSE, run_text_alpha |-> 0,
      combat_ui_visible |-> FALSE,
      full_hp_text_visible |-> FALSE, full_hp_text_alpha |-> 0 ]

InitAttack ==
    [ move_used_state |-> "none", move_used_ui_slide_y |-> 0,
      move_used_dialog_text |-> "", move_used_wait_timer |-> 0,
      battle_slide_out |-> FALSE, prompt_pulse_fade_out |-> FALSE,
      background_black_alpha |-> 0, black_block_alpha |-> 0,
      assets_hidden |-> FALSE, venusaur_centered |-> FALSE,
      prompt_pulse_charge_complete |-> FALSE,
      venusaur_original_x |-> 0, venusaur_original_y |-> 0,
      venusaur_move_back |-> FALSE, venusaur_move_back_timer |-> 0,
      lugia_original_x |-> 0, lugia_original_y |-> 0,
      lugia_move_back |-> FALSE, lugia_move_back_timer |-> 0,
      battle_lugia_alpha |-> 255,
      screen_shake_active |-> FALSE, screen_shake_timer |-> 0,
      screen_shake_offset_x |-> 0, screen_shake_offset_y |-> 0,
      lugia_rotation_angle |-> 0, lugia_slide_in_complete |-> FALSE,
      screen_shake_triggered_after_pulse |-> FALSE,
      move_back_complete |-> FALSE, fade_out_after_shake |-> FALSE,
      attack_pulse_end_alpha |-> 255, black_block_fade_out_alpha |-> 255,
      fade_out_timer |-> 0,
      fade_in_after_attack |-> FALSE, fade_in_after_attack_alpha |-> 0,
      fade_in_after_attack_timer |-> 0,
      prompt_pulse_animation_timer |-> 0 ]

InitEndScene ==
    [ end_scene_active |-> FALSE,
      end_scene_health_bar_timer |-> 0, end_scene_health_bar_width |-> 96,
      end_scene_health_bar_pause_timer |-> 0,
      end_scene_health_bar_cry_played |-> FALSE,
      end_scene_music_played |-> FALSE,
      end_scene_lugia_fall_timer |-> 0,
      end_scene_lugia_fall_start_x |-> 0, end_scene_lugia_fall_start_y |-> 0,
      end_scene_lugia_fall_alpha |-> 255,
      end_scene_fainted_text_active |-> FALSE, end_scene_fainted_text_timer |-> 0,
      end_scene_black_bg_delay_timer |-> 0,
      end_scene_black_bg_active |-> FALSE, end_scene_black_bg_alpha |-> 0,
      end_scene_black_bg_timer |-> 0, end_scene_elements_fade_alpha |-> 255,
      end_scene_venusaur_active |-> FALSE,
      end_scene_venusaur_fade_timer |-> 0, end_scene_venusaur_fade_alpha |-> 0,
      end_scene_venusaur_slide_timer |-> 0,
      end_scene_venusaur_x |-> 0, end_scene_venusaur_y |-> 0,
      end_scene_pokemon_shine_active |-> FALSE,
      end_scene_pokemon_shine_current_frame |-> 0,
      end_scene_pokemon_shine_animation_time |-> 0,
      end_scene_pokemon_shine_fade_timer |-> 0,
      end_scene_pokemon_shine_fade_alpha |-> 0,
      end_scene_bg_active |-> FALSE, end_scene_bg_x |-> 0, end_scene_bg_y |-> 0,
      end_scene_bg_slide_timer |-> 0,
      end_scene_cursor_active |-> FALSE, end_scene_cursor_fade_timer |-> 0,
      end_scene_cursor_fade_alpha |-> 0, end_scene_cursor_y |-> 0,
      end_scene_cursor_start_y |-> 0, end_scene_cursor_target_y |-> 0,
      end_scene_press_r_active |-> FALSE, end_scene_press_r_fade_timer |-> 0,
      end_scene_press_r_fade_alpha |-> 0, end_scene_press_r_blink_timer |-> 0,
      end_scene_press_r_blink_alpha |-> 255,
      end_scene_press_r_fade_complete |-> FALSE ]

---------------------------------------------------------------------------
(* __init__: battle elements and their slide speeds.                       *)

battle_slide_speed_base == 8

battle_grass == assets.battle_grass_w > 0
battle_pokemonstat == assets.battle_pokemonstat_w > 0
battle_water == assets.battle_water_w > 0
battle_lugia == assets.battle_lugia_w > 0 /\ assets.battle_lugia_frames > 0
battle_venu == assets.battle_venu_w > 0 /\ assets.battle_venu_frames > 0
battle_dialog == assets.battle_dialog_w > 0
fight_ui == assets.fight_ui_w > 0
combat_ui == assets.combat_ui_w > 0
battle_trainer_sprites == assets.battle_trainer_sprites > 0

scaled_lugia_width == (assets.battle_lugia_w * 3) \div 2
scaled_lugia_height == (assets.battle_lugia_h * 3) \div 2
scaled_venu_width == assets.battle_venu_w * 2
scaled_venu_height == assets.battle_venu_h * 2

battle_grass_left_target_x == 0
battle_pokemonstat_target_x == 0
battle_trainer_target_x == 0
battle_water_target_x == IF battle_water THEN SCREEN_WIDTH - assets.battle_water_w ELSE 0
battle_water_y == IF battle_water /\ battle_pokemonstat THEN assets.battle_pokemonstat_h ELSE 0
battle_grass_y ==
    IF ~battle_grass THEN 0
    ELSE IF battle_dialog
    THEN SCREEN_HEIGHT - assets.battle_dialog_h - assets.battle_grass_h
    ELSE SCREEN_HEIGHT - 100

battle_lugia_target_x ==
    IF battle_lugia /\ battle_water
    THEN (battle_water_target_x + assets.battle_water_w \div 2) - scaled_lugia_width \div 2
    ELSE 0

battle_lugia_start_y ==
    IF battle_lugia /\ battle_water
    THEN battle_water_y + assets.battle_water_h - scaled_lugia_height
    ELSE 0

battle_venu_target_y ==
    IF ~battle_venu THEN 0
    ELSE IF battle_dialog
    THEN SCREEN_HEIGHT - assets.battle_dialog_h - scaled_venu_height + 30
    ELSE SCREEN_HEIGHT - 200

grass_distance == IF battle_grass THEN assets.battle_grass_w ELSE 0
pokemonstat_distance == IF battle_pokemonstat THEN assets.battle_pokemonstat_w ELSE 0
water_distance == IF battle_water THEN assets.battle_water_w ELSE 0
trainer_distance == IF battle_trainer_sprites THEN SCREEN_WIDTH ELSE 0

max_distance ==
    Max(Max(grass_distance, pokemonstat_distance), Max(water_distance, trainer_distance))

(* The speeds are (distance / max_distance) * base.  To keep them exact    *)
(* the model measures the horizontal position of the five slide-in         *)
(* elements, and the vertical position of the player's creature, in units  *)
(* of 1/SlideUnit pixel; U(px) converts a pixel count.                     *)
SlideUnit == IF max_distance > 0 THEN max_distance ELSE 1
U(px) == px * SlideUnit

(* Every element at the base speed, whatever its distance.                 *)
SameSpeed(distance, longest, base) == longest * base

(* (distance / longest) * base pixels, in units of 1/longest pixel.        *)
ProportionalSpeed(distance, longest, base) == distance * base

SlideSpeed(distance) ==
    IF max_distance > 0 /\ distance > 0
    THEN ProportionalSpeed(distance, max_distance, battle_slide_speed_base)
    ELSE U(battle_slide_speed_base)

battle_grass_speed == SlideSpeed(grass_distance)
battle_pokemonstat_speed == SlideSpeed(pokemonstat_distance)
battle_water_speed == SlideSpeed(water_distance)
battle_trainer_speed == SlideSpeed(trainer_distance)

(* attrs lists the attributes that exist only after an assignment and     *)
(* that restart removes with delattr; a removed attribute keeps value 0.   *)
InitBattleElements ==
    [ battle_grass_left_x |-> IF battle_grass THEN U(0 - assets.battle_grass_w) ELSE 0,
      battle_grass_visible |-> FALSE,
      battle_trainer_x |-> IF battle_trainer_sprites THEN U(SCREEN_WIDTH) ELSE 0,
      battle_trainer_current_frame |-> 0, battle_trainer_animation_time |-> 0,
      battle_trainer_visible |-> FALSE, battle_trainer_can_animate |-> FALSE,
      battle_trainer_slide_out |-> FALSE, battle_trainer_alpha |-> 255,
      battle_pokemonstat_x |->
          IF battle_pokemonstat THEN U(0 - assets.battle_pokemonstat_w) ELSE 0,
      battle_pokemonstat_visible |-> FALSE,
      battle_water_x |-> IF battle_water THEN U(SCREEN_WIDTH) ELSE 0,
      battle_water_visible |-> FALSE,
      battle_lugia_current_frame |-> 0, battle_lugia_animation_time |-> 0,
      battle_lugia_x |-> IF battle_lugia /\ battle_water THEN U(SCREEN_WIDTH) ELSE 0,
      battle_lugia_y |-> battle_lugia_start_y,
      battle_lugia_visible |-> FALSE,
      battle_venu_current_frame |-> 0, battle_venu_animation_time |-> 0,
      prompt_pulse_charge_current_frame |-> 0,
      prompt_pulse_charge_animation_time |-> 0,
      battle_venu_x |-> 0,
      battle_venu_y |-> IF battle_venu THEN U(SCREEN_HEIGHT) ELSE 0,
      battle_venu_visible |-> FALSE,
      battle_venu_stat_visible |-> assets.battle_venu_stat,
      battle_venu_start_x |-> 0, battle_venu_start_y |-> 0,
      battle_venu_center_target_x |-> 0, battle_venu_center_target_y |-> 0,
      lugia_move_back_target_x |-> 0, lugia_move_back_target_y |-> 0,
      lugia_move_back_start_x |-> 0, lugia_move_back_start_y |-> 0,
      venusaur_move_back_start_x |-> 0, venusaur_move_back_start_y |-> 0,
      lugia_above_screen_y |-> 0, lugia_moved_above_screen |-> FALSE,
      collision_sound_timer |-> 0, move_used_text_display_timer |-> 0,
      attrs |-> {"battle_venu_x", "battle_venu_y"} ]

__init__ ==
    InitMovement @@ InitCutscene @@ InitExclamation @@ InitDialog @@ InitSound
    @@ InitBattleUI @@ InitAttack @@ InitEndScene @@ InitBattleElements

(* main.py: Game() constructs the scene and change_scene enters it.        *)
FreshScene == on_enter(__init__)

---------------------------------------------------------------------------
(* update(): the trigger region, the exclamation mark, the cutscene.       *)

exclamation_show_duration == 300
exclamation_slide_speed == 8
exclamation_fade_speed == 12
dialog_pause_duration == 1800
dialog_slide_speed == 5
fade_speed == 10

(* Statements run in order: Then(v, F) is F applied to the value of v,     *)
(* which is computed once.                                                 *)
Then(v, F(_)) == CHOOSE r \in { F(x) : x \in {v} } : TRUE

under_lugia(s) ==
    LET lugia_bottom_cell_y == (lugia_target_y + 132) \div grid_size
        lugia_left_cell_x == lugia_target_x \div grid_size
        lugia_right_cell_x == (lugia_target_x + 132) \div grid_size
        player_cell_x == CellX(s.player_world_x)
        player_cell_y == CellY(s.player_world_y)
    IN  /\ lugia_left_cell_x <= player_cell_x /\ player_cell_x <= lugia_right_cell_x
        /\ player_cell_y = lugia_bottom_cell_y

(* The clock: dt milliseconds have passed since the previous update, so    *)
(* every stored get_ticks() stamp is dt older.  The ages stop growing at   *)
(* the duration they are compared with.                                    *)
AdvanceClock(s, dt) ==
    [s EXCEPT !.exclamation_show_time =
                  IF s.exclamation_state = "showing"
                  THEN Min(@ + dt, exclamation_show_duration) ELSE @,
              !.dialog_pause_start_time =
                  IF @ >= 0 THEN Min(@ + dt, dialog_pause_duration) ELSE @]

UpdateExclamation(s) ==
    IF ~(s.exclamation_visible /\ assets.exclamation_image) THEN s
    ELSE IF s.exclamation_state = "sliding_up"
    THEN IF s.exclamation_y > s.exclamation_target_y
         THEN IF s.exclamation_y - exclamation_slide_speed <= s.exclamation_target_y
              THEN [s EXCEPT !.exclamation_y = s.exclamation_target_y,
                             !.exclamation_state = "showing",
                             !.exclamation_show_time = 0]
              ELSE [s EXCEPT !.exclamation_y = @ - exclamation_slide_speed]
         ELSE [s EXCEPT !.exclamation_state = "showing", !.exclamation_show_time = 0]
    ELSE IF s.exclamation_state = "showing"
    THEN IF s.exclamation_show_time >= exclamation_show_duration
         THEN [s EXCEPT !.exclamation_state = "sliding_down"] ELSE s
    ELSE IF s.exclamation_state = "sliding_down"
    THEN LET alpha == Max(0, s.exclamation_alpha - exclamation_fade_speed)
         IN  [s EXCEPT !.exclamation_y = @ + exclamation_slide_speed,
                       !.exclamation_alpha = alpha,
                       !.exclamation_visible = IF alpha <= 0 THEN FALSE ELSE @,
                       !.exclamation_state = IF alpha <= 0 THEN "hidden" ELSE @]
    ELSE s

LugiaHidden(s) ==
    IF ~under_lugia(s) THEN s
    ELSE LET s1 == [s EXCEPT !.lugia_state = "flying_in"]
         IN  IF ~assets.exclamation_image THEN s1
             ELSE [s1 EXCEPT
                     !.exclamation_x = s.player_world_x + player_width \div 2 - 8,
                     !.exclamation_y = s.player_world_y + grid_size,
                     !.exclamation_target_y = s.player_world_y - grid_size,
                     !.exclamation_visible = TRUE,
                     !.exclamation_state = "sliding_up",
                     !.exclamation_alpha = 255,
                     !.exclamation_show_time = 0,
                     !.played = IF assets.sfx /\ ~s.exclamation_sound_played
                                THEN @ \cup {"press_ab"} ELSE @,
                     !.exclamation_sound_played = IF assets.sfx THEN TRUE ELSE @]

LugiaFlyingIn(s) ==
    IF s.lugia_y < 2 * lugia_target_y
    THEN LET y == s.lugia_y + 5
         IN  [s EXCEPT !.lugia_y = y,
                       !.lugia_x = IF s.lugia_x > lugia_target_x * LugiaXUnit
                                   THEN lugia_start_x * LugiaXUnit - 50 * (y + 400)
                                   ELSE lugia_target_x * LugiaXUnit]
    ELSE [s EXCEPT !.lugia_y = 2 * lugia_target_y,
                   !.lugia_x = lugia_target_x * LugiaXUnit,
                   !.lugia_state = "animating",
                   !.lugia_current_frame = 0]

(* Ten additions of 0.1 give 0.9999999999999999 in the floats of the code, *)
(* so an accumulator fed with tenths first passes 1.0 on the eleventh      *)
(* addition: a sum of exactly 100 hundredths has not yet reached one.      *)
ReachedOne(t) == t > 100

(* The cry without its one-shot flag.                                      *)
LugiaCryUngated(s) ==
    IF assets.sfx THEN [s EXCEPT !.played = @ \cup {"cry"}] ELSE s

LugiaCry(s) ==
    IF assets.sfx /\ ~s.lugia_cry_played
    THEN [s EXCEPT !.played = @ \cup {"cry"}, !.lugia_cry_played = TRUE]
    ELSE s

LugiaAnimating(s) ==
    LET n == assets.lugia_sprites
        t == s.lugia_animation_time + (IF s.lugia_current_frame = n - 2 THEN 3 ELSE 10)
        s1 == IF ~ReachedOne(t) THEN [s EXCEPT !.lugia_animation_time = t]
              ELSE IF s.lugia_current_frame + 1 >= n
              THEN [s EXCEPT !.lugia_animation_time = 0,
                             !.lugia_current_frame = n - 1,
                             !.lugia_state = "stopped",
                             !.lugia_animation_complete = TRUE,
                             !.dialog_visible = TRUE,
                             !.dialog_fully_visible = FALSE,
                             !.dialog_slide_y = SCREEN_HEIGHT,
                             !.dialog_text = "Bugia wants to battle!"]
              ELSE [s EXCEPT !.lugia_animation_time = 0,
                             !.lugia_current_frame = @ + 1]
    IN  IF n = 0 THEN s
        ELSE IF s1.lugia_current_frame = n - 1 THEN LugiaCry(s1) ELSE s1

(* The animation starts over once it has stopped.                          *)
LugiaLoops(s) ==
    [s EXCEPT !.lugia_state = "animating", !.lugia_current_frame = 0]

LugiaStopped(s) ==
    IF assets.lugia_sprites = 0 THEN s
    ELSE LugiaCry([s EXCEPT !.lugia_current_frame = assets.lugia_sprites - 1])

UpdateLugia(s) ==
    IF s.lugia_state = "hidden" THEN LugiaHidden(s)
    ELSE IF s.lugia_state = "flying_in" THEN LugiaFlyingIn(s)
    ELSE IF s.lugia_state = "animating" THEN LugiaAnimating(s)
    ELSE LugiaStopped(s)

---------------------------------------------------------------------------
(* update(): the dialog box, the pause before the fade, the fade.          *)

dialog_target_y ==
    SCREEN_HEIGHT - (IF assets.dialog_image_h > 0 THEN assets.dialog_image_h ELSE 56)

StartPause(s) ==
    IF s.lugia_animation_complete /\ s.fade_state = "none"
       /\ s.dialog_pause_start_time < 0
    THEN [s EXCEPT !.dialog_pause_start_time = 0] ELSE s

UpdateDialog(s) ==
    IF ~s.dialog_visible THEN s
    ELSE LET s1 == IF s.dialog_slide_y > dialog_target_y
                   THEN IF s.dialog_slide_y - dialog_slide_speed <= dialog_target_y
                        THEN StartPause([s EXCEPT !.dialog_slide_y = dialog_target_y,
                                                  !.dialog_fully_visible = TRUE])
                        ELSE [s EXCEPT !.dialog_slide_y = @ - dialog_slide_speed]
                   ELSE StartPause([s EXCEPT !.dialog_fully_visible = TRUE])
         IN  IF /\ s1.dialog_pause_start_time >= dialog_pause_duration
                /\ assets.fighting_background /\ s1.fade_state = "none"
             THEN [s1 EXCEPT !.fade_state = "fading", !.fade_alpha = 0,
                             !.dialog_pause_start_time = 0 - 1]
             ELSE s1

(* The fade that starts the battle intro in its first tick instead of its  *)
(* last.                                                                   *)
UpdateFadeIntroAtOnce(s) ==
    IF s.fade_state # "fading" THEN s
    ELSE LET s1 == [s EXCEPT !.battle_animations_started = TRUE,
                             !.battle_dialog_visible = TRUE]
         IN  IF s1.fade_alpha + fade_speed < 255
             THEN [s1 EXCEPT !.fade_alpha = @ + fade_speed]
             ELSE [s1 EXCEPT !.fade_alpha = 255, !.fade_state = "faded",
                             !.fade_complete = TRUE]

UpdateFade(s) ==
    IF s.fade_state # "fading" THEN s
    ELSE LET s1 == IF ~s.battle_music_started
                   THEN [s EXCEPT !.music = "battle", !.battle_music_started = TRUE]
                   ELSE s
         IN  IF s1.fade_alpha + fade_speed < 255
             THEN [s1 EXCEPT !.fade_alpha = @ + fade_speed]
             ELSE LET s2 == [s1 EXCEPT
                               !.fade_alpha = 255, !.fade_state = "faded",
                               !.fade_complete = TRUE,
                               !.battle_lugia_current_frame =
                                   IF assets.battle_lugia_frames > 0 THEN 0 ELSE @,
                               !.battle_lugia_animation_time =
                                   IF assets.battle_lugia_frames > 0 THEN 0 ELSE @]
                  IN  IF s2.battle_animations_started THEN s2
                      ELSE [s2 EXCEPT
                              !.battle_animations_started = TRUE,
                              !.battle_dialog_visible = TRUE,
                              !.battle_grass_visible = TRUE,
                              !.battle_pokemonstat_visible = TRUE,
                              !.battle_water_visible = TRUE,
                              !.battle_lugia_visible = TRUE,
                              !.battle_trainer_visible = TRUE,
                              !.battle_venu_stat_visible =
                                  IF assets.battle_venu_stat THEN TRUE ELSE @]

---------------------------------------------------------------------------
(* update(), fade_state "faded": the slide-in of the battle elements.      *)

(* The positions are Python floats and a speed (d / max_distance) * base   *)
(* with d < max_distance is not exact: where exact arithmetic lands on the *)
(* target, the accumulated float lands on it, beyond it, or just short of  *)
(* it, depending on the image widths.  assets.rounds_short names the       *)
(* elements whose sum lands short; short is one unit before the target.    *)
RoundsShort(element, distance) ==
    element \in assets.rounds_short /\ distance < max_distance

SlideRight(x, speed, target, short) ==
    IF x >= target THEN x
    ELSE IF x + speed > target THEN target
    ELSE IF x + speed = target THEN (IF short THEN target - 1 ELSE target)
    ELSE x + speed

SlideLeft(x, speed, target, short) ==
    IF x <= target THEN x
    ELSE IF x - speed < target THEN target
    ELSE IF x - speed = target THEN (IF short THEN target + 1 ELSE target)
    ELSE x - speed

BattleLugiaSlides(s) ==
    s.battle_lugia_visible /\ battle_lugia /\ s.battle_lugia_x > U(battle_lugia_target_x)

UpdateSlideIn(s) ==
    IF s.move_used_state = "none"
    THEN [s EXCEPT
            !.battle_grass_left_x =
                IF s.battle_grass_visible /\ battle_grass
                THEN SlideRight(@, battle_grass_speed, U(battle_grass_left_target_x),
                                RoundsShort("grass", grass_distance))
                ELSE @,
            !.battle_pokemonstat_x =
                IF s.battle_pokemonstat_visible /\ battle_pokemonstat
                THEN SlideRight(@, battle_pokemonstat_speed, U(battle_pokemonstat_target_x),
                                RoundsShort("pokemonstat", pokemonstat_distance))
                ELSE @,
            !.battle_water_x =
                IF s.battle_water_visible /\ battle_water
                THEN SlideLeft(@, battle_water_speed, U(battle_water_target_x),
                               RoundsShort("water", water_distance))
                ELSE @,
            !.battle_lugia_x =
                IF s.battle_lugia_visible /\ battle_lugia
                THEN SlideLeft(@, battle_water_speed, U(battle_lugia_target_x),
                               RoundsShort("lugia", water_distance))
                ELSE @,
            !.lugia_slide_in_complete =
                IF BattleLugiaSlides(s)
                   /\ SlideLeft(s.battle_lugia_x, battle_water_speed,
                                U(battle_lugia_target_x),
                                RoundsShort("lugia", water_distance))
                      = U(battle_lugia_target_x)
                THEN TRUE ELSE @,
            !.battle_trainer_x =
                IF s.battle_trainer_visible /\ battle_trainer_sprites
                THEN SlideLeft(@, battle_trainer_speed, U(battle_trainer_target_x), FALSE)
                ELSE @]
    ELSE [s EXCEPT
            !.battle_grass_left_x =
                IF s.battle_grass_visible /\ battle_grass
                THEN U(battle_grass_left_target_x) ELSE @,
            !.battle_pokemonstat_x =
                IF s.battle_pokemonstat_visible /\ battle_pokemonstat
                THEN U(battle_pokemonstat_target_x) ELSE @,
            !.battle_water_x =
                IF s.battle_water_visible /\ battle_water
                THEN U(battle_water_target_x) ELSE @,
            !.battle_lugia_x =
                IF s.battle_lugia_visible /\ battle_lugia
                   /\ s.move_used_state # "fading_black"
                THEN U(battle_lugia_target_x) ELSE @,
            !.battle_trainer_x =
                IF s.battle_trainer_visible /\ battle_trainer_sprites
                THEN U(battle_trainer_target_x) ELSE @]

(* The opponent's GIF: a frame every third tick (0.4 per tick).            *)
UpdateLugiaGif(s) ==
    IF ~(s.battle_lugia_visible /\ battle_lugia /\ assets.battle_lugia_frames > 1)
    THEN s
    ELSE IF s.battle_lugia_animation_time + 40 >= 100
    THEN [s EXCEPT !.battle_lugia_animation_time = 0,
                   !.battle_lugia_current_frame = (@ + 1) % assets.battle_lugia_frames]
    ELSE [s EXCEPT !.battle_lugia_animation_time = @ + 40]

---------------------------------------------------------------------------
(* update(), fade_state "faded": the trainer's gate, throw and exit.       *)

all_animations_complete(s) ==
    /\ s.move_used_state = "none"
    /\ (s.battle_grass_visible /\ battle_grass)
          => s.battle_grass_left_x = U(battle_grass_left_target_x)
    /\ (s.battle_pokemonstat_visible /\ battle_pokemonstat)
          => s.battle_pokemonstat_x = U(battle_pokemonstat_target_x)
    /\ (s.battle_water_visible /\ battle_water)
          => s.battle_water_x = U(battle_water_target_x)
    /\ s.battle_trainer_x = U(battle_trainer_target_x)

TrainerGate(s) ==
    IF all_animations_complete(s) /\ ~s.battle_trainer_can_animate
    THEN [s EXCEPT !.battle_trainer_can_animate = TRUE] ELSE s

TrainerAnimate(s) ==
    IF ~(s.battle_trainer_can_animate
         /\ s.battle_trainer_x = U(battle_trainer_target_x)
         /\ ~s.battle_trainer_slide_out)
    THEN s
    ELSE IF s.battle_trainer_animation_time + 15 < 100
    THEN [s EXCEPT !.battle_trainer_animation_time = @ + 15]
    ELSE IF s.battle_trainer_current_frame < assets.battle_trainer_sprites - 1
    THEN LET toss == s.battle_trainer_current_frame + 1 = 1 /\ assets.sfx
                     /\ ~s.trainer_animation_sound_played
         IN  [s EXCEPT !.battle_trainer_animation_time = 0,
                       !.battle_trainer_current_frame = @ + 1,
                       !.played = IF toss THEN @ \cup {"ball_toss"} ELSE @,
                       !.trainer_animation_sound_played = IF toss THEN TRUE ELSE @]
    ELSE [s EXCEPT !.battle_trainer_animation_time = 0,
                   !.battle_venu_visible = TRUE,
                   !.battle_text_venusaur_alpha = 0,
                   !.battle_text_lugia_alpha = 255,
                   !.fight_ui_alpha = IF fight_ui THEN 0 ELSE @,
                   !.battle_trainer_slide_out = TRUE,
                   !.battle_trainer_alpha = 255]

TrainerSlideOut(s) ==
    IF ~s.battle_trainer_slide_out THEN s
    ELSE LET trainer_slide_out_target == U(0 - 180)
             x == s.battle_trainer_x - battle_trainer_speed
             travelled == IF x >= 0 THEN x ELSE 0 - x
             alpha == IF travelled >= U(180) THEN 0
                      ELSE (255 * (U(180) - travelled)) \div U(180)
             s1 == IF s.battle_trainer_x > trainer_slide_out_target
                   THEN [s EXCEPT !.battle_trainer_x = x, !.battle_trainer_alpha = alpha]
                   ELSE s
         IN  IF s1.battle_trainer_x <= trainer_slide_out_target
                \/ s1.battle_trainer_alpha <= 0
             THEN [s1 EXCEPT !.battle_trainer_alpha = 0,
                             !.battle_trainer_visible = FALSE]
             ELSE s1

UpdateTrainer(s) ==
    IF s.battle_trainer_visible /\ battle_trainer_sprites
    THEN TrainerSlideOut(TrainerAnimate(TrainerGate(s)))
    ELSE s

---------------------------------------------------------------------------
(* Timed animations.  progress = min(1, timer / duration) is kept in       *)
(* thousandths, and ease_in_out(t) = t * t * (3 - 2 * t) likewise.         *)

Progress(timer, duration) == (Min(timer, duration) * 1000) \div duration

ease_in_out(P) == (P * P * (3000 - 2 * P)) \div 1000000

Eased(timer, duration) == ease_in_out(Progress(timer, duration))

Lerp(start, target, E) == start + ((target - start) * E) \div 1000

venusaur_move_back_duration == 500
lugia_move_back_duration == 500
screen_shake_duration == 1000
fade_out_duration == 500

---------------------------------------------------------------------------
(* update(), fade_state "faded": the player's creature and the opponent's  *)
(* descent (the block guarded by battle_venu_visible).                     *)

VenusaurMoveBackInBattle(s, dt) ==
    IF ~(s.venusaur_move_back /\ s.move_used_state = "none") THEN s
    ELSE LET t == s.venusaur_move_back_timer + dt
             s1 == [s EXCEPT
                      !.venusaur_move_back_timer = t,
                      !.battle_venu_y =
                          IF "venusaur_move_back_start" \in s.attrs
                          THEN Lerp(s.venusaur_move_back_start_y, s.venusaur_original_y,
                                    Eased(t, venusaur_move_back_duration))
                          ELSE @,
                      !.attrs = IF "venusaur_move_back_start" \in s.attrs
                                THEN @ \cup {"battle_venu_y"} ELSE @]
         IN  IF t < venusaur_move_back_duration THEN s1
             ELSE [s1 EXCEPT !.battle_venu_y = s.venusaur_original_y,
                             !.attrs = @ \cup {"battle_venu_y"},
                             !.venusaur_move_back = FALSE,
                             !.move_back_complete =
                                 IF ~s.lugia_move_back THEN TRUE ELSE @]

LugiaDescends(s) ==
    /\ s.lugia_move_back /\ s.battle_lugia_visible /\ battle_lugia
    /\ ~s.fade_out_after_shake

(* The descent with the shake running from its first tick.                *)
LugiaMoveBackShakesEarly(s, dt) ==
    LET t == s.lugia_move_back_timer + dt
        E == Eased(t, lugia_move_back_duration)
        has == {"lugia_move_back_start", "lugia_move_back_target"} \subseteq s.attrs
        s1 == [s EXCEPT
                 !.lugia_move_back_timer = t,
                 !.battle_lugia_x =
                     IF has THEN Lerp(s.lugia_move_back_start_x,
                                      s.lugia_move_back_target_x, E) ELSE @,
                 !.battle_lugia_y =
                     IF has THEN Lerp(s.lugia_move_back_start_y,
                                      s.lugia_move_back_target_y, E) ELSE @,
                 !.battle_lugia_alpha = IF has THEN (255 * E) \div 1000 ELSE @]
        s2 == [s1 EXCEPT
                 !.battle_lugia_x =
                     IF "lugia_move_back_target" \in s.attrs
                     THEN s.lugia_move_back_target_x ELSE @,
                 !.battle_lugia_y =
                     IF "lugia_move_back_target" \in s.attrs
                     THEN s.lugia_move_back_target_y ELSE @,
                 !.battle_lugia_alpha = 255,
                 !.lugia_move_back = FALSE,
                 !.move_back_complete = IF ~s1.venusaur_move_back THEN TRUE ELSE @]
        spike == assets.sfx /\ ~s.spike_cannon_sound_played
    IN  IF t < lugia_move_back_duration
        THEN [s1 EXCEPT !.screen_shake_active = ~s.screen_shake_triggered_after_pulse]
        ELSE IF s.screen_shake_triggered_after_pulse THEN s2
        ELSE [s2 EXCEPT !.screen_shake_triggered_after_pulse = TRUE,
                        !.screen_shake_active = TRUE,
                        !.played = IF spike THEN @ \cup {"spike_cannon"} ELSE @,
                        !.spike_cannon_sound_played = IF spike THEN TRUE ELSE @,
                        !.screen_shake_timer = 0,
                        !.lugia_rotation_angle = 0]

LugiaMoveBack(s, dt) ==
    LET t == s.lugia_move_back_timer + dt
        E == Eased(t, lugia_move_back_duration)
        has == {"lugia_move_back_start", "lugia_move_back_target"} \subseteq s.attrs
        s1 == [s EXCEPT
                 !.lugia_move_back_timer = t,
                 !.battle_lugia_x =
                     IF has THEN Lerp(s.lugia_move_back_start_x,
                                      s.lugia_move_back_target_x, E) ELSE @,
                 !.battle_lugia_y =
                     IF has THEN Lerp(s.lugia_move_back_start_y,
                                      s.lugia_move_back_target_y, E) ELSE @,
                 !.battle_lugia_alpha = IF has THEN (255 * E) \div 1000 ELSE @]
        s2 == [s1 EXCEPT
                 !.battle_lugia_x =
                     IF "lugia_move_back_target" \in s.attrs
                     THEN s.lugia_move_back_target_x ELSE @,
                 !.battle_lugia_y =
                     IF "lugia_move_back_target" \in s.attrs
                     THEN s.lugia_move_back_target_y ELSE @,
                 !.battle_lugia_alpha = 255,
                 !.lugia_move_back = FALSE,
                 !.move_back_complete = IF ~s1.venusaur_move_back THEN TRUE ELSE @]
        spike == assets.sfx /\ ~s.spike_cannon_sound_played
    IN  IF t < lugia_move_back_duration THEN s1
        ELSE IF s.screen_shake_triggered_after_pulse THEN s2
        ELSE [s2 EXCEPT !.screen_shake_triggered_after_pulse = TRUE,
                        !.screen_shake_active = TRUE,
                        !.played = IF spike THEN @ \cup {"spike_cannon"} ELSE @,
                        !.spike_cannon_sound_played = IF spike THEN TRUE ELSE @,
                        !.screen_shake_timer = 0,
                        !.lugia_rotation_angle = 0]

VenusaurSlideIn(s) ==
    LET y == IF s.battle_venu_y - battle_trainer_speed <= U(battle_venu_target_y)
             THEN U(battle_venu_target_y)
             ELSE s.battle_venu_y - battle_trainer_speed
        total == U(SCREEN_HEIGHT) - U(battle_venu_target_y)
        current == U(SCREEN_HEIGHT) - y
        poof == assets.sfx /\ ~s.venusaur_slide_sound_played /\ 2 * current >= total
        s1 == [s EXCEPT !.battle_venu_y = y]
    IN  IF total > 0
        THEN [s1 EXCEPT
                !.played = IF poof THEN @ \cup {"ball_poof"} ELSE @,
                !.venusaur_slide_sound_played = IF poof THEN TRUE ELSE @,
                !.battle_text_venusaur_alpha = 0,
                !.battle_text_lugia_alpha = 255,
                !.fight_ui_alpha =
                    IF fight_ui /\ s.move_used_dialog_text = "" THEN 0 ELSE @]
        ELSE [s1 EXCEPT
                !.battle_text_venusaur_alpha =
                    IF s.move_used_dialog_text = "" THEN 255 ELSE @,
                !.battle_text_lugia_alpha =
                    IF s.move_used_dialog_text = "" THEN 0 ELSE @,
                !.fight_ui_alpha =
                    IF fight_ui /\ s.move_used_dialog_text = "" THEN 255 ELSE @]

VenusaurArrived(s) ==
    IF s.move_used_dialog_text # "" THEN s
    ELSE [s EXCEPT !.battle_text_venusaur_alpha = 255,
                   !.battle_text_lugia_alpha = 0,
                   !.battle_text_state = "venusaur",
                   !.fight_ui_alpha = IF fight_ui THEN 255 ELSE @]

UpdateVenuGif(s) ==
    IF assets.battle_venu_frames <= 1 THEN s
    ELSE IF s.battle_venu_animation_time + 40 >= 100
    THEN [s EXCEPT !.battle_venu_animation_time = 0,
                   !.battle_venu_current_frame = (@ + 1) % assets.battle_venu_frames]
    ELSE [s EXCEPT !.battle_venu_animation_time = @ + 40]

UpdateVenusaur(s, dt) ==
    IF ~(s.battle_venu_visible /\ battle_venu) THEN s
    ELSE LET s1 == VenusaurMoveBackInBattle(s, dt)
             s2 == IF LugiaDescends(s1) THEN LugiaMoveBack(s1, dt)
                   ELSE IF s1.move_used_state = "none"
                           /\ s1.battle_venu_y > U(battle_venu_target_y)
                   THEN VenusaurSlideIn(s1)
                   ELSE IF s1.move_used_state = "none" THEN VenusaurArrived(s1)
                   ELSE s1
         IN  UpdateVenuGif(s2)

---------------------------------------------------------------------------
(* update(), fade_state "faded": the charge animation of the attack and    *)
(* the immediate text switch.                                              *)

(* The charge animation without the wait for the centred creature.        *)
UpdateChargeUncentred(s) ==
    IF ~(s.move_used_state = "fading_black" /\ ~s.prompt_pulse_charge_complete
         /\ assets.prompt_pulse_charge_frames > 1)
    THEN s
    ELSE LET t == s.prompt_pulse_charge_animation_time + 10
             venu_xy == {"battle_venu_x", "battle_venu_y"} \subseteq s.attrs
         IN  IF ~ReachedOne(t)
             THEN [s EXCEPT !.prompt_pulse_charge_animation_time = t]
             ELSE IF s.prompt_pulse_charge_current_frame + 1
                     < assets.prompt_pulse_charge_frames
             THEN [s EXCEPT !.prompt_pulse_charge_animation_time = 0,
                            !.prompt_pulse_charge_current_frame = @ + 1]
             ELSE [s EXCEPT
                     !.prompt_pulse_charge_animation_time = 0,
                     !.prompt_pulse_charge_current_frame = @ + 1,
                     !.prompt_pulse_charge_complete = TRUE,
                     !.venusaur_centered = FALSE,
                     !.venusaur_move_back = TRUE,
                     !.lugia_move_back = TRUE,
                     !.venusaur_move_back_timer = 0,
                     !.lugia_move_back_timer = 0,
                     !.venusaur_move_back_start_x = IF venu_xy THEN s.battle_venu_x ELSE @,
                     !.venusaur_move_back_start_y = IF venu_xy THEN s.battle_venu_y ELSE @,
                     !.lugia_move_back_start_x =
                         IF s.battle_lugia_visible THEN s.battle_lugia_x ELSE @,
                     !.lugia_move_back_start_y =
                         IF s.battle_lugia_visible THEN s.battle_lugia_y ELSE @,
                     !.attrs = @ \cup (IF venu_xy THEN {"venusaur_move_back_start"} ELSE {})
                                 \cup (IF s.battle_lugia_visible
                                       THEN {"lugia_move_back_start"} ELSE {}),
                     !.battle_lugia_alpha = 0]

UpdateCharge(s) ==
    IF ~(s.venusaur_centered /\ ~s.prompt_pulse_charge_complete
         /\ assets.prompt_pulse_charge_frames > 1)
    THEN s
    ELSE LET t == s.prompt_pulse_charge_animation_time + 10
             venu_xy == {"battle_venu_x", "battle_venu_y"} \subseteq s.attrs
         IN  IF ~ReachedOne(t)
             THEN [s EXCEPT !.prompt_pulse_charge_animation_time = t]
             ELSE IF s.prompt_pulse_charge_current_frame + 1
                     < assets.prompt_pulse_charge_frames
             THEN [s EXCEPT !.prompt_pulse_charge_animation_time = 0,
                            !.prompt_pulse_charge_current_frame = @ + 1]
             ELSE [s EXCEPT
                     !.prompt_pulse_charge_animation_time = 0,
                     !.prompt_pulse_charge_current_frame = @ + 1,
                     !.prompt_pulse_charge_complete = TRUE,
                     !.venusaur_centered = FALSE,
                     !.venusaur_move_back = TRUE,
                     !.lugia_move_back = TRUE,
                     !.venusaur_move_back_timer = 0,
                     !.lugia_move_back_timer = 0,
                     !.venusaur_move_back_start_x = IF venu_xy THEN s.battle_venu_x ELSE @,
                     !.venusaur_move_back_start_y = IF venu_xy THEN s.battle_venu_y ELSE @,
                     !.lugia_move_back_start_x =
                         IF s.battle_lugia_visible THEN s.battle_lugia_x ELSE @,
                     !.lugia_move_back_start_y =
                         IF s.battle_lugia_visible THEN s.battle_lugia_y ELSE @,
                     !.attrs = @ \cup (IF venu_xy THEN {"venusaur_move_back_start"} ELSE {})
                                 \cup (IF s.battle_lugia_visible
                                       THEN {"lugia_move_back_start"} ELSE {}),
                     !.battle_lugia_alpha = 0]

UpdateTextSwitch(s) ==
    IF s.battle_text_fading /\ ~s.battle_venu_visible /\ s.move_used_state = "none"
    THEN [s EXCEPT !.battle_text_lugia_alpha = 0,
                   !.battle_text_venusaur_alpha = 255,
                   !.battle_text_state = "venusaur",
                   !.battle_text_fading = FALSE]
    ELSE s

(* The whole branch of update() guarded by fade_state == "faded".          *)
UpdateFaded(s, dt) ==
    IF s.fade_state # "faded" THEN s
    ELSE LET s1 == [s EXCEPT !.battle_dialog_alpha =
                                 IF s.battle_dialog_visible /\ battle_dialog
                                 THEN 255 ELSE @]
         IN  Then(Then(Then(Then(Then(UpdateSlideIn(s1),
                 UpdateLugiaGif), UpdateTrainer),
                 LAMBDA s2 : UpdateVenusaur(s2, dt)), UpdateCharge), UpdateTextSwitch)

UpdateBattleDialogAlpha(s) ==
    IF s.fade_state = "fading" /\ s.battle_dialog_visible /\ battle_dialog
    THEN [s EXCEPT !.battle_dialog_alpha = Min(255, s.fade_alpha)]
    ELSE s

---------------------------------------------------------------------------
(* update(): the screen shake, the fade-out of the overlays and the        *)
(* return to the battle screen.                                            *)

UpdateShake(s, dt) ==
    IF ~s.screen_shake_active THEN s
    ELSE LET t == s.screen_shake_timer + dt IN
         IF t < screen_shake_duration
         THEN [s EXCEPT !.screen_shake_timer = t,
                        !.screen_shake_offset_x = 1, !.screen_shake_offset_y = 1,
                        !.lugia_rotation_angle = 1]
         ELSE LET s1 == [s EXCEPT !.screen_shake_timer = t,
                                  !.screen_shake_active = FALSE,
                                  !.screen_shake_offset_x = 0,
                                  !.screen_shake_offset_y = 0,
                                  !.lugia_rotation_angle = 0]
              IN  IF s.fade_out_after_shake \/ ~s.move_back_complete THEN s1
                  ELSE LET s2 == [s1 EXCEPT !.fade_out_after_shake = TRUE,
                                            !.fade_out_timer = 0,
                                            !.attack_pulse_end_alpha = 255,
                                            !.black_block_fade_out_alpha = 255]
                       IN  IF ~s.battle_lugia_visible THEN s2
                           ELSE [s2 EXCEPT
                                   !.lugia_move_back = TRUE,
                                   !.lugia_move_back_timer = 0,
                                   !.lugia_move_back_start_x = s.battle_lugia_x,
                                   !.lugia_move_back_start_y = s.battle_lugia_y,
                                   !.lugia_move_back_target_x = s.battle_lugia_x,
                                   !.lugia_move_back_target_y = s.lugia_original_y,
                                   !.attrs = @ \cup {"lugia_move_back_start",
                                                     "lugia_move_back_target"}]

UpdateFadeOut(s, dt) ==
    IF ~s.fade_out_after_shake THEN s
    ELSE LET t == s.fade_out_timer + dt
             alpha == (255 * (1000 - Eased(t, fade_out_duration))) \div 1000
         IN  IF t < fade_out_duration
             THEN [s EXCEPT !.fade_out_timer = t,
                            !.attack_pulse_end_alpha = alpha,
                            !.black_block_fade_out_alpha = alpha]
             ELSE [s EXCEPT !.fade_out_timer = t,
                            !.attack_pulse_end_alpha = 0,
                            !.black_block_fade_out_alpha = 0,
                            !.assets_hidden = FALSE,
                            !.fade_in_after_attack = TRUE,
                            !.fade_in_after_attack_alpha = 255,
                            !.fade_in_after_attack_timer = 500]

---------------------------------------------------------------------------
(* update(): fade_in_after_attack, the instant return to the battle screen *)
(* that also starts the end sequence.                                      *)

UpdateFadeInAfterAttack(s) ==
    IF ~s.fade_in_after_attack THEN s
    ELSE LET s1 == [s EXCEPT
                      !.fade_in_after_attack_alpha = 255,
                      !.fade_in_after_attack = FALSE,
                      !.move_used_state = "none",
                      !.battle_venu_x =
                          IF s.battle_venu_visible /\ "battle_venu_x" \in s.attrs
                             /\ battle_grass /\ battle_venu
                          THEN (s.battle_grass_left_x \div SlideUnit
                                + assets.battle_grass_w \div 2) - scaled_venu_width \div 2
                          ELSE @,
                      !.battle_lugia_y =
                          IF s.battle_lugia_visible THEN s.lugia_original_y ELSE @,
                      !.battle_lugia_x =
                          IF s.battle_lugia_visible THEN U(battle_lugia_target_x) ELSE @,
                      !.venusaur_move_back = FALSE, !.lugia_move_back = FALSE,
                      !.venusaur_centered = FALSE, !.move_back_complete = FALSE,
                      !.venusaur_move_back_timer = 0, !.lugia_move_back_timer = 0,
                      !.lugia_moved_above_screen = FALSE,
                      !.prompt_pulse_charge_complete = FALSE,
                      !.prompt_pulse_charge_current_frame = 0,
                      !.prompt_pulse_charge_animation_time = 0,
                      !.fade_out_after_shake = FALSE, !.fade_out_timer = 0,
                      !.battle_slide_out = FALSE,
                      !.screen_shake_active = FALSE,
                      !.screen_shake_triggered_after_pulse = FALSE,
                      !.screen_shake_offset_x = 0, !.screen_shake_offset_y = 0,
                      !.lugia_rotation_angle = 0,
                      !.black_block_alpha = 0, !.attack_pulse_end_alpha = 0,
                      !.black_block_fade_out_alpha = 0, !.assets_hidden = FALSE,
                      !.battle_lugia_alpha = 255,
                      !.battle_trainer_visible = FALSE,
                      !.battle_trainer_can_animate = FALSE,
                      !.battle_trainer_slide_out = FALSE,
                      !.battle_grass_visible = TRUE,
                      !.battle_grass_left_x =
                          IF battle_grass THEN U(battle_grass_left_target_x) ELSE @,
                      !.battle_venu_visible = TRUE,
                      !.battle_venu_y = U(battle_venu_target_y),
                      !.attrs = @ \cup {"battle_venu_y"},
                      !.battle_lugia_visible = TRUE,
                      !.battle_pokemonstat_visible = TRUE,
                      !.battle_venu_stat_visible = TRUE]
         IN  IF s.move_used_dialog_text = "" THEN s1
             ELSE [s1 EXCEPT
                     !.battle_text_lugia_alpha = 255,
                     !.battle_text_venusaur_alpha = 0,
                     !.move_used_text_display_timer = 0,
                     !.attrs = @ \cup {"move_used_text_display_timer"},
                     !.end_scene_active = TRUE,
                     !.end_scene_health_bar_timer = 0,
                     !.end_scene_health_bar_width = 96,
                     !.end_scene_health_bar_pause_timer = 0,
                     !.end_scene_health_bar_cry_played = FALSE,
                     !.end_scene_lugia_fall_timer = 0,
                     !.end_scene_lugia_fall_alpha = 255,
                     !.end_scene_lugia_fall_start_x = s1.battle_lugia_x,
                     !.end_scene_lugia_fall_start_y = s1.battle_lugia_y,
                     !.end_scene_black_bg_active = FALSE,
                     !.end_scene_black_bg_alpha = 0,
                     !.end_scene_black_bg_timer = 0,
                     !.end_scene_elements_fade_alpha = 255,
                     !.end_scene_music_played = FALSE]

---------------------------------------------------------------------------
(* update(): the end sequence.  Linear animations: int(n * progress) and   *)
(* int(n * (1 - progress)) with progress = min(1, timer / duration).       *)

(* n * (1 - timer / duration) without the min: negative past the duration. *)
FallingUnclamped(n, timer, duration) == 0 - ((n * (timer - duration)) \div duration)

Rising(n, timer, duration) == (n * Min(timer, duration)) \div duration
Falling(n, timer, duration) == (n * (duration - Min(timer, duration))) \div duration

end_scene_health_bar_duration == 2000
end_scene_health_bar_initial_width == 96
end_scene_health_bar_pause_duration == 500
end_scene_lugia_fall_duration == 1000
end_scene_lugia_fall_distance == 40
end_scene_fainted_text_duration == 1000
end_scene_black_bg_delay_duration == 1000
end_scene_black_bg_duration == 1000
end_scene_venusaur_fade_duration == 2000
end_scene_venusaur_slide_duration == 500
end_scene_pokemon_shine_animation_speed == 50
end_scene_pokemon_shine_fade_duration == 500
end_scene_bg_slide_duration == 1000
end_scene_cursor_fade_duration == 500
end_scene_cursor_slide_offset == 25
end_scene_press_r_blink_total_duration == 3000

EndCry(s) ==
    IF s.end_scene_health_bar_cry_played THEN s
    ELSE [s EXCEPT !.played = IF assets.sfx THEN @ \cup {"cry"} ELSE @,
                   !.end_scene_health_bar_cry_played = TRUE]

end_scene_venusaur_fade_x == (SCREEN_WIDTH - assets.end_scene_venusaur_w) \div 2
end_scene_venusaur_start_x == SCREEN_WIDTH - 144 - assets.end_scene_venusaur_w
end_scene_venusaur_end_x == SCREEN_WIDTH - 32 - assets.end_scene_venusaur_w
end_scene_bg_start_x == 0 - assets.end_scene_bg_w
end_scene_bg_end_x == SCREEN_WIDTH - assets.end_scene_bg_w

EndVenusaurArt(s, dt) ==
    IF ~(s.end_scene_venusaur_active /\ assets.end_scene_venusaur_w > 0) THEN s
    ELSE IF s.end_scene_venusaur_fade_timer < end_scene_venusaur_fade_duration
    THEN LET t == s.end_scene_venusaur_fade_timer + dt IN
         [s EXCEPT !.end_scene_venusaur_fade_timer = t,
                   !.end_scene_venusaur_fade_alpha =
                       Rising(255, t, end_scene_venusaur_fade_duration),
                   !.end_scene_venusaur_x = end_scene_venusaur_fade_x]
    ELSE IF s.end_scene_venusaur_slide_timer < end_scene_venusaur_slide_duration
    THEN LET t == s.end_scene_venusaur_slide_timer + dt
             shine == ~s.end_scene_pokemon_shine_active /\ t > 0
         IN  [s EXCEPT
                !.end_scene_venusaur_slide_timer = t,
                !.end_scene_venusaur_x =
                    end_scene_venusaur_start_x
                    + Rising(end_scene_venusaur_end_x - end_scene_venusaur_start_x,
                             t, end_scene_venusaur_slide_duration),
                !.end_scene_pokemon_shine_active = IF shine THEN TRUE ELSE @,
                !.end_scene_pokemon_shine_fade_timer = IF shine THEN 0 ELSE @,
                !.end_scene_pokemon_shine_fade_alpha = IF shine THEN 0 ELSE @,
                !.end_scene_pokemon_shine_current_frame = IF shine THEN 0 ELSE @,
                !.end_scene_pokemon_shine_animation_time = IF shine THEN 0 ELSE @,
                !.end_scene_venusaur_fade_alpha = 255]
    ELSE [s EXCEPT !.end_scene_venusaur_x = end_scene_venusaur_end_x,
                   !.end_scene_venusaur_fade_alpha = 255]


EndShine(s, dt) ==
    IF ~(s.end_scene_pokemon_shine_active /\ assets.end_scene_shine_frames > 0) THEN s
    ELSE LET ta == s.end_scene_pokemon_shine_animation_time + dt
             s1 == IF assets.end_scene_shine_frames <= 1 THEN s
                   ELSE IF ta >= end_scene_pokemon_shine_animation_speed
                   THEN [s EXCEPT !.end_scene_pokemon_shine_animation_time = 0,
                                  !.end_scene_pokemon_shine_current_frame =
                                      (@ + 1) % assets.end_scene_shine_frames]
                   ELSE [s EXCEPT !.end_scene_pokemon_shine_animation_time = ta]
             tf == s.end_scene_pokemon_shine_fade_timer + dt
             start_bg == ~s.end_scene_bg_active /\ assets.end_scene_bg_w > 0
         IN  IF s.end_scene_pokemon_shine_fade_timer < end_scene_pokemon_shine_fade_duration
             THEN [s1 EXCEPT !.end_scene_pokemon_shine_fade_timer = tf,
                             !.end_scene_pokemon_shine_fade_alpha =
                                 Rising(255, tf, end_scene_pokemon_shine_fade_duration)]
             ELSE [s1 EXCEPT
                     !.end_scene_pokemon_shine_fade_alpha = 255,
                     !.end_scene_bg_active = IF start_bg THEN TRUE ELSE @,
                     !.end_scene_bg_slide_timer = IF start_bg THEN 0 ELSE @,
                     !.end_scene_bg_x = IF start_bg THEN end_scene_bg_start_x ELSE @,
                     !.end_scene_bg_y =
                         IF start_bg THEN (SCREEN_HEIGHT - assets.end_scene_bg_h) \div 2
                         ELSE @]

(* The logo and the prompt start with the backdrop slide.                   *)
EndBackgroundEarly(s, dt) ==
    IF ~(s.end_scene_bg_active /\ assets.end_scene_bg_w > 0) THEN s
    ELSE [s EXCEPT !.end_scene_bg_slide_timer =
                       IF @ < end_scene_bg_slide_duration THEN @ + dt ELSE @,
                   !.end_scene_cursor_active = TRUE,
                   !.end_scene_press_r_active = TRUE]

EndBackground(s, dt) ==
    IF ~(s.end_scene_bg_active /\ assets.end_scene_bg_w > 0) THEN s
    ELSE IF s.end_scene_bg_slide_timer < end_scene_bg_slide_duration
    THEN LET t == s.end_scene_bg_slide_timer + dt IN
         [s EXCEPT !.end_scene_bg_slide_timer = t,
                   !.end_scene_bg_x = Lerp(end_scene_bg_start_x, end_scene_bg_end_x,
                                           Eased(t, end_scene_bg_slide_duration))]
    ELSE LET cursor == ~s.end_scene_cursor_active /\ assets.end_scene_cursor
             target_y == IF s.end_scene_pokemon_shine_active
                            /\ assets.end_scene_shine_frames > 0
                         THEN 92 + assets.end_scene_shine_h - 20 + 5
                         ELSE SCREEN_HEIGHT \div 2
             press_r == ~s.end_scene_press_r_active /\ assets.end_scene_press_r
         IN  [s EXCEPT
                !.end_scene_bg_x = end_scene_bg_end_x,
                !.end_scene_cursor_active = IF cursor THEN TRUE ELSE @,
                !.end_scene_cursor_fade_timer = IF cursor THEN 0 ELSE @,
                !.end_scene_cursor_fade_alpha = IF cursor THEN 0 ELSE @,
                !.end_scene_cursor_target_y = IF cursor THEN target_y ELSE @,
                !.end_scene_cursor_start_y =
                    IF cursor THEN target_y + end_scene_cursor_slide_offset ELSE @,
                !.end_scene_cursor_y =
                    IF cursor THEN target_y + end_scene_cursor_slide_offset ELSE @,
                !.end_scene_press_r_active = IF press_r THEN TRUE ELSE @,
                !.end_scene_press_r_fade_timer = IF press_r THEN 0 ELSE @,
                !.end_scene_press_r_fade_alpha = IF press_r THEN 0 ELSE @,
                !.end_scene_press_r_fade_complete = IF press_r THEN FALSE ELSE @,
                !.end_scene_press_r_blink_timer = IF press_r THEN 0 ELSE @,
                !.end_scene_press_r_blink_alpha = IF press_r THEN 255 ELSE @]

EndBlackBackground(s, dt) ==
    IF ~s.end_scene_black_bg_active THEN s
    ELSE LET t == s.end_scene_black_bg_timer + dt
             art == t >= end_scene_black_bg_duration /\ ~s.end_scene_venusaur_active
             img == art /\ assets.end_scene_venusaur_w > 0
             s1 == [s EXCEPT
                      !.end_scene_black_bg_timer = Min(t, end_scene_black_bg_duration),
                      !.end_scene_black_bg_alpha =
                          Rising(255, t, end_scene_black_bg_duration),
                      !.end_scene_elements_fade_alpha =
                          Falling(255, t, end_scene_black_bg_duration),
                      !.end_scene_venusaur_active = IF art THEN TRUE ELSE @,
                      !.end_scene_venusaur_fade_timer = IF art THEN 0 ELSE @,
                      !.end_scene_venusaur_fade_alpha = IF art THEN 0 ELSE @,
                      !.end_scene_venusaur_slide_timer = IF art THEN 0 ELSE @,
                      !.end_scene_venusaur_x = IF img THEN end_scene_venusaur_fade_x ELSE @,
                      !.end_scene_venusaur_y =
                          IF img THEN (SCREEN_HEIGHT - assets.end_scene_venusaur_h) \div 2
                          ELSE @]
         IN  EndBackground(EndShine(EndVenusaurArt(s1, dt), dt), dt)


(* render(): the opponent's health bar.  The colour runs from green to red *)
(* with the health-bar timer, each channel int(g + (r - g) * progress).    *)
green_color == <<112, 248, 168>>
red_color == <<248, 88, 56>>

rect_width(s) ==
    IF s.end_scene_active THEN s.end_scene_health_bar_width
    ELSE end_scene_health_bar_initial_width

rect_color(s) ==
    IF ~s.end_scene_active THEN green_color
    ELSE LET t == Min(s.end_scene_health_bar_timer, end_scene_health_bar_duration)
         IN  [c \in 1..3 |->
                 (green_color[c] * end_scene_health_bar_duration
                  + (red_color[c] - green_color[c]) * t)
                 \div end_scene_health_bar_duration]

(* The end sequence does not advance.                                      *)
EndSceneIdle(s, dt) == s

(* The chain of phases of the end sequence.  Four timers of the sequence   *)
(* and of the attack grow for ever (end_scene_black_bg_timer,              *)
(* prompt_pulse_animation_timer, move_used_text_display_timer and          *)
(* end_scene_press_r_blink_timer); they are only read through min(1, t/d), *)
(* t >= d and t % d, so the model stores min(t, d), or t % d for the last. *)
UpdateEndScene(s, dt) ==
    IF ~s.end_scene_active THEN s
    ELSE IF s.end_scene_health_bar_timer < end_scene_health_bar_duration
    THEN LET t == s.end_scene_health_bar_timer + dt
             w == Falling(end_scene_health_bar_initial_width, t,
                          end_scene_health_bar_duration)
             s1 == [s EXCEPT !.end_scene_health_bar_timer = t,
                             !.end_scene_health_bar_width = w]
         IN  IF w <= 0 THEN EndCry(s1) ELSE s1
    ELSE LET s1 == EndCry(s) IN
    IF s1.end_scene_health_bar_pause_timer < end_scene_health_bar_pause_duration
    THEN [s1 EXCEPT !.end_scene_health_bar_pause_timer = @ + dt]
    ELSE IF s1.end_scene_lugia_fall_timer < end_scene_lugia_fall_duration
    THEN LET t == s1.end_scene_lugia_fall_timer + dt IN
         [s1 EXCEPT !.end_scene_lugia_fall_timer = t,
                    !.end_scene_lugia_fall_alpha =
                        Falling(255, t, end_scene_lugia_fall_duration),
                    !.battle_lugia_y =
                        s.end_scene_lugia_fall_start_y
                        + Rising(end_scene_lugia_fall_distance, t,
                                 end_scene_lugia_fall_duration)]
    ELSE IF ~s1.end_scene_fainted_text_active
    THEN [s1 EXCEPT !.move_used_dialog_text = "Bugia fainted!",
                    !.end_scene_fainted_text_active = TRUE,
                    !.end_scene_fainted_text_timer = 0,
                    !.played = IF assets.sfx THEN @ \cup {"press_ab"} ELSE @]
    ELSE LET s2 ==
             IF s1.end_scene_fainted_text_timer < end_scene_fainted_text_duration
             THEN [s1 EXCEPT !.end_scene_fainted_text_timer = @ + dt]
             ELSE IF s1.end_scene_black_bg_delay_timer < end_scene_black_bg_delay_duration
             THEN [s1 EXCEPT !.end_scene_black_bg_delay_timer = @ + dt]
             ELSE IF ~s1.end_scene_black_bg_active
             THEN [s1 EXCEPT !.end_scene_black_bg_active = TRUE,
                             !.end_scene_black_bg_timer = 0,
                             !.end_scene_black_bg_alpha = 0,
                             !.end_scene_elements_fade_alpha = 255,
                             !.music = IF ~s1.end_scene_music_played THEN "end" ELSE @,
                             !.end_scene_music_played = TRUE]
             ELSE s1
         IN  EndBlackBackground(s2, dt)

UpdateCursor(s, dt) ==
    IF ~(s.end_scene_cursor_active /\ assets.end_scene_cursor) THEN s
    ELSE IF s.end_scene_cursor_fade_timer < end_scene_cursor_fade_duration
    THEN LET t == s.end_scene_cursor_fade_timer + dt IN
         [s EXCEPT !.end_scene_cursor_fade_timer = t,
                   !.end_scene_cursor_fade_alpha =
                       Rising(255, t, end_scene_cursor_fade_duration),
                   !.end_scene_cursor_y =
                       s.end_scene_cursor_start_y
                       - Rising(end_scene_cursor_slide_offset, t,
                                end_scene_cursor_fade_duration)]
    ELSE [s EXCEPT !.end_scene_cursor_fade_alpha = 255,
                   !.end_scene_cursor_y = s.end_scene_cursor_target_y]

UpdatePressR(s, dt) ==
    IF ~(s.end_scene_press_r_active /\ assets.end_scene_press_r) THEN s
    ELSE LET t0 == IF s.end_scene_press_r_fade_complete
                   THEN s.end_scene_press_r_blink_timer ELSE 0
             t == (t0 + dt) % end_scene_press_r_blink_total_duration
             alpha == IF t < 1000 THEN (255 * t) \div 1000
                      ELSE IF t < 2000 THEN 255
                      ELSE (255 * (3000 - t)) \div 1000
         IN  [s EXCEPT !.end_scene_press_r_fade_alpha = 255,
                       !.end_scene_press_r_fade_complete = TRUE,
                       !.end_scene_press_r_blink_timer = t,
                       !.end_scene_press_r_blink_alpha = alpha]

---------------------------------------------------------------------------
(* update(): the text timer after the attack, the two message boxes and    *)
(* the gate of the collision sound.                                        *)

move_used_text_fade_duration == 2000

(* The cross-fade with the incoming text raised before the outgoing one    *)
(* is lowered.                                                             *)
UpdateMoveUsedTextRiseFirst(s, dt) ==
    IF ~(s.move_used_dialog_text # "" /\ s.move_used_state = "none"
         /\ "move_used_text_display_timer" \in s.attrs)
    THEN s
    ELSE LET t == Min(s.move_used_text_display_timer + dt, move_used_text_fade_duration)
             va == Min(255, s.battle_text_venusaur_alpha + 3)
             la == IF s.battle_text_venusaur_alpha = 255
                   THEN Max(0, s.battle_text_lugia_alpha - 3)
                   ELSE s.battle_text_lugia_alpha
         IN  IF t < move_used_text_fade_duration
             THEN [s EXCEPT !.move_used_text_display_timer = t]
             ELSE [s EXCEPT !.move_used_text_display_timer = t,
                            !.battle_text_lugia_alpha = la,
                            !.battle_text_venusaur_alpha = va,
                            !.battle_text_state = IF la = 0 THEN "venusaur" ELSE @]

UpdateMoveUsedText(s, dt) ==
    IF ~(s.move_used_dialog_text # "" /\ s.move_used_state = "none"
         /\ "move_used_text_display_timer" \in s.attrs)
    THEN s
    ELSE LET t == Min(s.move_used_text_display_timer + dt, move_used_text_fade_duration)
             la == IF s.battle_text_lugia_alpha > 0
                   THEN Max(0, s.battle_text_lugia_alpha - 3)
                   ELSE s.battle_text_lugia_alpha
             rise == la = 0 /\ s.battle_text_venusaur_alpha < 255
             va == IF rise THEN Min(255, s.battle_text_venusaur_alpha + 3)
                   ELSE s.battle_text_venusaur_alpha
         IN  IF t < move_used_text_fade_duration
             THEN [s EXCEPT !.move_used_text_display_timer = t]
             ELSE [s EXCEPT !.move_used_text_display_timer = t,
                            !.battle_text_lugia_alpha = la,
                            !.battle_text_venusaur_alpha = va,
                            !.battle_text_state =
                                IF rise /\ va >= 255 THEN "venusaur" ELSE @]

UpdateMessageBoxes(s) ==
    [s EXCEPT !.run_text_alpha = IF s.run_text_visible THEN 255 ELSE 0,
              !.full_hp_text_alpha = IF s.full_hp_text_visible THEN 255 ELSE 0]

collision_sound_stagger == 750

UpdateCollisionGate(s, dt) ==
    IF ~(s.collision_sound_playing /\ assets.sfx) THEN s
    ELSE LET t == s.collision_sound_timer + dt IN
         IF t >= collision_sound_stagger
         THEN [s EXCEPT !.collision_sound_playing = FALSE,
                        !.collision_sound_timer = 0,
                        !.attrs = @ \cup {"collision_sound_timer"}]
         ELSE [s EXCEPT !.collision_sound_timer = t,
                        !.attrs = @ \cup {"collision_sound_timer"}]

---------------------------------------------------------------------------
(* update(): the move_used_state machine (sliding_down, dialog_showing,    *)
(* fading_black).                                                          *)

move_used_ui_target_y == SCREEN_HEIGHT
move_used_wait_duration == 1500
prompt_pulse_animation_duration == 1000

(* First tick in fading_black: battle_slide_out is still False.            *)
FadingBlackInit(s) ==
    IF s.battle_slide_out THEN s
    ELSE LET s1 == [s EXCEPT !.battle_slide_out = TRUE, !.black_block_alpha = 0,
                             !.prompt_pulse_animation_timer = 0,
                             !.assets_hidden = FALSE]
             start_x == (s.battle_grass_left_x \div SlideUnit
                         + assets.battle_grass_w \div 2) - scaled_venu_width \div 2
             lugia == s.battle_lugia_visible /\ battle_lugia
         IN  IF ~(s.battle_venu_visible /\ battle_venu /\ battle_grass) THEN s1
             ELSE [s1 EXCEPT
                     !.battle_venu_start_x = start_x,
                     !.battle_venu_start_y = s.battle_venu_y,
                     !.venusaur_original_x = start_x,
                     !.venusaur_original_y = U(battle_venu_target_y),
                     !.lugia_original_x = IF lugia THEN U(battle_lugia_target_x) ELSE @,
                     !.lugia_original_y = IF lugia THEN s.battle_lugia_y ELSE @,
                     !.lugia_above_screen_y = IF lugia THEN 0 - scaled_lugia_height ELSE @,
                     !.lugia_move_back_target_x = IF lugia THEN s.battle_lugia_x ELSE @,
                     !.lugia_move_back_target_y =
                         IF lugia THEN SCREEN_HEIGHT \div 2 - scaled_lugia_height + 40
                         ELSE @,
                     !.lugia_move_back_start_x = IF lugia THEN s.battle_lugia_x ELSE @,
                     !.lugia_move_back_start_y =
                         IF lugia THEN 0 - scaled_lugia_height ELSE @,
                     !.lugia_moved_above_screen = IF lugia THEN FALSE ELSE @,
                     !.battle_venu_center_target_x =
                         SCREEN_WIDTH \div 2 - scaled_venu_width \div 2,
                     !.battle_venu_center_target_y =
                         U(SCREEN_HEIGHT \div 2 - scaled_venu_height \div 2),
                     !.battle_venu_x = start_x,
                     !.battle_venu_y = s.battle_venu_y,
                     !.attrs = @ \cup {"battle_venu_start", "battle_venu_center_target",
                                       "battle_venu_x", "battle_venu_y"}
                                 \cup (IF lugia
                                       THEN {"lugia_black_box", "lugia_above_screen",
                                             "lugia_move_back_target",
                                             "lugia_move_back_start",
                                             "lugia_moved_above_screen"}
                                       ELSE {}),
                     !.venusaur_centered = FALSE,
                     !.prompt_pulse_charge_complete = FALSE,
                     !.prompt_pulse_charge_current_frame = 0,
                     !.prompt_pulse_charge_animation_time = 0,
                     !.venusaur_move_back_timer = 0,
                     !.lugia_move_back_timer = 0,
                     !.lugia_move_back = FALSE,
                     !.battle_lugia_alpha = 255,
                     !.move_back_complete = FALSE]

(* Venusaur returns from the centre (inside the fading_black handler).     *)
VenusaurMoveBack(s, dt) ==
    LET t == s.venusaur_move_back_timer + dt
        E == Eased(t, venusaur_move_back_duration)
        has == "venusaur_move_back_start" \in s.attrs
        s1 == [s EXCEPT
                 !.venusaur_move_back_timer = t,
                 !.battle_venu_x =
                     IF has THEN Lerp(s.venusaur_move_back_start_x,
                                      s.venusaur_original_x, E) ELSE @,
                 !.battle_venu_y =
                     IF has THEN Lerp(s.venusaur_move_back_start_y,
                                      s.venusaur_original_y, E) ELSE @,
                 !.attrs = IF has THEN @ \cup {"battle_venu_x", "battle_venu_y"} ELSE @]
    IN  IF t < venusaur_move_back_duration THEN s1
        ELSE [s1 EXCEPT !.battle_venu_x = s.venusaur_original_x,
                        !.battle_venu_y = s.venusaur_original_y,
                        !.attrs = @ \cup {"battle_venu_x", "battle_venu_y"},
                        !.venusaur_move_back = FALSE,
                        !.move_back_complete = IF ~s.lugia_move_back THEN TRUE ELSE @]


(* Venusaur slides to the centre during the first half of the second.      *)
VenusaurToCentre(s) ==
    LET P == Progress(s.prompt_pulse_animation_timer, prompt_pulse_animation_duration)
        E == ease_in_out(IF P <= 500 THEN Min(1000, 2 * P) ELSE 1000)
        arrive == P >= 500 /\ ~s.venusaur_centered
        spore == arrive /\ assets.sfx /\ ~s.spore_sound_played
        lift == /\ arrive /\ "lugia_moved_above_screen" \in s.attrs
                /\ ~s.lugia_moved_above_screen
                /\ s.battle_lugia_visible /\ battle_lugia
                /\ "lugia_above_screen" \in s.attrs
    IN  [s EXCEPT
           !.battle_venu_x = Lerp(s.battle_venu_start_x, s.battle_venu_center_target_x, E),
           !.battle_venu_y = Lerp(s.battle_venu_start_y, s.battle_venu_center_target_y, E),
           !.attrs = @ \cup {"battle_venu_x", "battle_venu_y"},
           !.venusaur_centered = IF arrive THEN TRUE ELSE @,
           !.played = IF spore THEN @ \cup {"spore"} ELSE @,
           !.spore_sound_played = IF spore THEN TRUE ELSE @,
           !.battle_lugia_y = IF lift THEN s.lugia_above_screen_y ELSE @,
           !.lugia_moved_above_screen = IF lift THEN TRUE ELSE @]

(* The opponent returns to the water while the overlays fade out.          *)
LugiaReturn(s, dt) ==
    IF ~(s.lugia_move_back /\ s.battle_lugia_visible /\ battle_lugia
         /\ s.fade_out_after_shake)
    THEN s
    ELSE LET t == s.lugia_move_back_timer + dt
             E == Eased(t, lugia_move_back_duration)
             has == {"lugia_move_back_start", "lugia_move_back_target"} \subseteq s.attrs
             s1 == [s EXCEPT
                      !.lugia_move_back_timer = t,
                      !.battle_lugia_x =
                          IF has THEN Lerp(s.lugia_move_back_start_x,
                                           s.lugia_move_back_target_x, E) ELSE @,
                      !.battle_lugia_y =
                          IF has THEN Lerp(s.lugia_move_back_start_y,
                                           s.lugia_move_back_target_y, E) ELSE @]
         IN  IF t < lugia_move_back_duration THEN s1
             ELSE [s1 EXCEPT
                     !.battle_lugia_x =
                         IF "lugia_move_back_target" \in s.attrs
                         THEN s.lugia_move_back_target_x ELSE @,
                     !.battle_lugia_y =
                         IF "lugia_move_back_target" \in s.attrs
                         THEN s.lugia_move_back_target_y ELSE @,
                     !.lugia_move_back = FALSE]

FadingBlack(s, dt) ==
    LET s1 == FadingBlackInit(s)
        t == Min(s1.prompt_pulse_animation_timer + dt, prompt_pulse_animation_duration)
        alpha == (255 * Eased(t, prompt_pulse_animation_duration)) \div 1000
        s2 == [s1 EXCEPT !.prompt_pulse_animation_timer = t,
                         !.black_block_alpha = alpha,
                         !.assets_hidden = (alpha >= 255)]
    IN  IF ~(s2.battle_venu_visible /\ battle_venu
             /\ "battle_venu_center_target" \in s2.attrs)
        THEN s2
        ELSE LugiaReturn(IF s2.venusaur_move_back THEN VenusaurMoveBack(s2, dt)
                         ELSE IF ~s2.prompt_pulse_charge_complete
                         THEN VenusaurToCentre(s2)
                         ELSE s2, dt)

(* The state machine without the wait in dialog_showing.                   *)
UpdateMoveUsedNoWait(s, dt) ==
    IF s.move_used_state = "sliding_down"
    THEN IF s.move_used_ui_slide_y + 8 >= move_used_ui_target_y
         THEN [s EXCEPT !.move_used_ui_slide_y = move_used_ui_target_y,
                        !.move_used_state = "dialog_showing",
                        !.move_used_wait_timer = 0]
         ELSE [s EXCEPT !.move_used_ui_slide_y = @ + 8]
    ELSE IF s.move_used_state = "dialog_showing"
    THEN [s EXCEPT !.move_used_wait_timer = @ + dt, !.move_used_state = "fading_black"]
    ELSE IF s.move_used_state = "fading_black" THEN FadingBlack(s, dt)
    ELSE s

UpdateMoveUsed(s, dt) ==
    IF s.move_used_state = "sliding_down"
    THEN IF s.move_used_ui_slide_y >= move_used_ui_target_y THEN s
         ELSE IF s.move_used_ui_slide_y + 8 >= move_used_ui_target_y
         THEN [s EXCEPT !.move_used_ui_slide_y = move_used_ui_target_y,
                        !.move_used_state = "dialog_showing",
                        !.move_used_wait_timer = 0]
         ELSE [s EXCEPT !.move_used_ui_slide_y = @ + 8]
    ELSE IF s.move_used_state = "dialog_showing"
    THEN [s EXCEPT !.move_used_wait_timer = @ + dt,
                   !.move_used_state =
                       IF s.move_used_wait_timer + dt >= move_used_wait_duration
                       THEN "fading_black" ELSE @]
    ELSE IF s.move_used_state = "fading_black" THEN FadingBlack(s, dt)
    ELSE s

---------------------------------------------------------------------------
(* update(): one tick, dt = self.game.clock.get_time().                    *)

MusicGuard(s) ==
    IF s.fade_state = "none" /\ s.battle_music_started
    THEN [s EXCEPT !.music = "map", !.battle_music_started = FALSE] ELSE s

UpdateMap(s, dt) ==
    Then(Then(Then(Then(Then(Then(AdvanceClock(s, dt),
        MusicGuard), UpdateMovement), update_camera), UpdateSprite),
        UpdateExclamation), UpdateLugia)

UpdateBattle(s, dt) ==
    Then(Then(Then(UpdateDialog(s),
        UpdateFade), UpdateBattleDialogAlpha), LAMBDA s1 : UpdateFaded(s1, dt))

UpdateAttack(s, dt) ==
    Then(Then(UpdateShake(s, dt),
        LAMBDA s1 : UpdateFadeOut(s1, dt)), UpdateFadeInAfterAttack)

UpdateEnd(s, dt) ==
    Then(Then(Then(Then(Then(Then(UpdateEndScene(s, dt),
        LAMBDA s1 : UpdateCursor(s1, dt)), LAMBDA s1 : UpdatePressR(s1, dt)),
        LAMBDA s1 : UpdateMoveUsedText(s1, dt)), UpdateMessageBoxes),
        LAMBDA s1 : UpdateCollisionGate(s1, dt)), LAMBDA s1 : UpdateMoveUsed(s1, dt))

update(s, dt) ==
    Then(Then(Then(Then([s EXCEPT !.played = {}],
        LAMBDA s1 : UpdateMap(s1, dt)), LAMBDA s1 : UpdateBattle(s1, dt)),
        LAMBDA s1 : UpdateAttack(s1, dt)), LAMBDA s1 : UpdateEnd(s1, dt))

---------------------------------------------------------------------------
(* handle_event(): the M key, the R key, the movement keys.                *)

Mute(s) == [s EXCEPT !.audio_muted = ~@, !.played = {}]

(* Attributes that the R key removes with delattr.                         *)
RestartDeleted ==
    {"lugia_black_box", "lugia_move_back_target", "lugia_move_back_start",
     "battle_venu_x", "battle_venu_y", "battle_venu_start",
     "battle_venu_center_target"}

RestartPhases(s) ==
    [s EXCEPT !.lugia_state = "hidden", !.lugia_y = 0 - 400,
              !.lugia_current_frame = 0, !.lugia_cry_played = FALSE,
              !.move_used_state = "none", !.move_used_ui_slide_y = 0,
              !.move_used_dialog_text = "",
              !.combat_ui_visible = FALSE, !.lugia_animation_complete = FALSE,
              !.dialog_visible = FALSE, !.dialog_fully_visible = FALSE,
              !.dialog_slide_y = SCREEN_HEIGHT,
              !.fade_state = "none", !.fade_alpha = 0]

RestartAttack(s) ==
    [s EXCEPT !.prompt_pulse_fade_out = FALSE, !.background_black_alpha = 0,
              !.black_block_alpha = 0, !.battle_slide_out = FALSE,
              !.fade_out_after_shake = FALSE, !.attack_pulse_end_alpha = 255,
              !.black_block_fade_out_alpha = 255, !.fade_out_timer = 0,
              !.fade_in_after_attack = FALSE, !.fade_in_after_attack_alpha = 0,
              !.fade_in_after_attack_timer = 0,
              !.prompt_pulse_animation_timer = 0, !.assets_hidden = FALSE,
              !.venusaur_centered = FALSE,
              !.prompt_pulse_charge_complete = FALSE,
              !.prompt_pulse_charge_current_frame = 0,
              !.prompt_pulse_charge_animation_time = 0,
              !.venusaur_original_x = 0, !.venusaur_original_y = 0,
              !.venusaur_move_back = FALSE, !.venusaur_move_back_timer = 0,
              !.lugia_move_back = FALSE, !.lugia_move_back_timer = 0,
              !.battle_lugia_alpha = 255, !.move_back_complete = FALSE,
              !.screen_shake_active = FALSE, !.screen_shake_timer = 0,
              !.screen_shake_offset_x = 0, !.screen_shake_offset_y = 0,
              !.lugia_rotation_angle = 0, !.lugia_slide_in_complete = FALSE,
              !.screen_shake_triggered_after_pulse = FALSE]

RestartAttributes(s) ==
    LET reset == s.battle_lugia_visible
    IN  [s EXCEPT !.lugia_move_back_target_x = 0, !.lugia_move_back_target_y = 0,
                  !.lugia_move_back_start_x = 0, !.lugia_move_back_start_y = 0,
                  !.battle_lugia_x = IF reset THEN U(SCREEN_WIDTH) ELSE @,
                  !.battle_lugia_y =
                      IF reset /\ battle_water /\ battle_lugia
                      THEN battle_water_y + assets.battle_water_h - scaled_lugia_height
                      ELSE @,
                  !.battle_lugia_visible = IF reset THEN FALSE ELSE @,
                  !.battle_venu_x = 0, !.battle_venu_y = 0,
                  !.battle_venu_start_x = 0, !.battle_venu_start_y = 0,
                  !.battle_venu_center_target_x = 0,
                  !.battle_venu_center_target_y = 0,
                  !.attrs = @ \ RestartDeleted]

RestartBattle(s) ==
    LET s1 == [s EXCEPT
                 !.music = IF s.battle_music_started THEN "map" ELSE @,
                 !.battle_music_started = FALSE,
                 !.exclamation_sound_played = FALSE,
                 !.trainer_animation_sound_played = FALSE,
                 !.venusaur_slide_sound_played = FALSE,
                 !.spore_sound_played = FALSE,
                 !.spike_cannon_sound_played = FALSE,
                 !.battle_animations_started = FALSE,
                 !.battle_text_state = "lugia",
                 !.battle_text_lugia_alpha = 255,
                 !.battle_text_venusaur_alpha = 0,
                 !.battle_text_fading = FALSE,
                 !.current_screen = "battle",
                 !.run_text_visible = FALSE, !.run_text_alpha = 0,
                 !.combat_ui_visible = FALSE,
                 !.dialog_pause_start_time = 0 - 1]
        s2 == IF battle_dialog
              THEN [s1 EXCEPT !.battle_dialog_alpha = 0,
                              !.battle_dialog_visible = FALSE]
              ELSE s1
        s3 == IF battle_trainer_sprites
              THEN [s2 EXCEPT !.battle_trainer_x = U(SCREEN_WIDTH),
                              !.battle_trainer_current_frame = 0,
                              !.battle_trainer_can_animate = FALSE,
                              !.battle_trainer_visible = FALSE,
                              !.battle_trainer_slide_out = FALSE,
                              !.battle_trainer_alpha = 255]
              ELSE s2
        s4 == IF battle_venu
              THEN [s3 EXCEPT !.battle_venu_y = U(SCREEN_HEIGHT),
                              !.attrs = @ \cup {"battle_venu_y"},
                              !.battle_venu_visible = FALSE,
                              !.battle_venu_current_frame = 0,
                              !.battle_venu_animation_time = 0]
              ELSE s3
        s5 == IF fight_ui
              THEN [s4 EXCEPT !.fight_ui_alpha = 0,
                              !.fight_ui_hovered_cell = << >>,
                              !.fight_ui_selected_cell = << >>]
              ELSE s4
    IN  IF combat_ui THEN [s5 EXCEPT !.combat_ui_hovered_cell = << >>] ELSE s5

(* The end-sequence attributes that the R key assigns; every one gets the  *)
(* value the constructor gave it.  The constructor's other end-sequence    *)
(* attributes are not assigned by the handler.                             *)
RestartEndKept ==
    {"end_scene_lugia_fall_start_x", "end_scene_lugia_fall_start_y",
     "end_scene_venusaur_x", "end_scene_venusaur_y",
     "end_scene_cursor_start_y", "end_scene_cursor_target_y"}

RestartEndScene(s) ==
    [f \in DOMAIN s |->
        IF f \in DOMAIN InitEndScene /\ f \notin RestartEndKept
        THEN InitEndScene[f] ELSE s[f]]

RestartElements(s) ==
    LET s1 == IF battle_lugia
              THEN [s EXCEPT !.battle_lugia_x = U(SCREEN_WIDTH),
                             !.battle_lugia_visible = FALSE,
                             !.battle_lugia_current_frame = 0,
                             !.battle_lugia_animation_time = 0]
              ELSE s
        s2 == IF battle_grass
              THEN [s1 EXCEPT !.battle_grass_left_x = U(0 - assets.battle_grass_w),
                              !.battle_grass_visible = FALSE]
              ELSE s1
        s3 == IF battle_pokemonstat
              THEN [s2 EXCEPT
                      !.battle_pokemonstat_x = U(0 - assets.battle_pokemonstat_w),
                      !.battle_pokemonstat_visible = FALSE]
              ELSE s2
    IN  IF battle_water
        THEN [s3 EXCEPT !.battle_water_x = U(SCREEN_WIDTH),
                        !.battle_water_visible = FALSE]
        ELSE s3

(* KEYDOWN K_r: the click sound, on_enter(), then the resets in order.     *)
restart(s) ==
    LET s0 == [s EXCEPT !.played = IF assets.sfx THEN {"press_ab"} ELSE {}]
    IN  RestartElements(RestartEndScene(RestartBattle(RestartAttributes(
            RestartAttack(RestartPhases(on_enter(s0)))))))

(* Movement keys: ignored while the dialog shows or the cutscene runs.     *)
(* The key handler without the two early returns.                          *)
key_down_unlocked(s, key) ==
    LET s0 == [s EXCEPT !.played = {}]
    IN  IF key = "up" THEN [s0 EXCEPT !.moving_up = TRUE, !.current_direction = 1]
        ELSE IF key = "down" THEN [s0 EXCEPT !.moving_down = TRUE, !.current_direction = 0]
        ELSE IF key = "left" THEN [s0 EXCEPT !.moving_left = TRUE, !.current_direction = 3]
        ELSE [s0 EXCEPT !.moving_right = TRUE, !.current_direction = 2]

key_down(s, key) ==
    LET s0 == [s EXCEPT !.played = {}]
    IN  IF MovementLocked(s) THEN s0
        ELSE IF key = "up" THEN [s0 EXCEPT !.moving_up = TRUE, !.current_direction = 1]
        ELSE IF key = "down" THEN [s0 EXCEPT !.moving_down = TRUE, !.current_direction = 0]
        ELSE IF key = "left" THEN [s0 EXCEPT !.moving_left = TRUE, !.current_direction = 3]
        ELSE [s0 EXCEPT !.moving_right = TRUE, !.current_direction = 2]

key_up(s, key) ==
    LET s0 == [s EXCEPT !.played = {}]
    IN  IF MovementLocked(s) THEN s0
        ELSE IF key = "up" THEN [s0 EXCEPT !.moving_up = FALSE]
        ELSE IF key = "down" THEN [s0 EXCEPT !.moving_down = FALSE]
        ELSE IF key = "left" THEN [s0 EXCEPT !.moving_left = FALSE]
        ELSE [s0 EXCEPT !.moving_right = FALSE]

---------------------------------------------------------------------------
(* handle_event(): MOUSEBUTTONDOWN at pixel (mouse_x, mouse_y).            *)

fight_ui_x == IF fight_ui THEN SCREEN_WIDTH - assets.fight_ui_w ELSE 0
fight_ui_y == IF fight_ui THEN SCREEN_HEIGHT - assets.fight_ui_h ELSE 0
fight_ui_padding == 12
fight_ui_grid_cols == 2
fight_ui_grid_rows == 2
fight_ui_cell_width == (assets.fight_ui_w - fight_ui_padding * 2) \div fight_ui_grid_cols
fight_ui_cell_height == (assets.fight_ui_h - fight_ui_padding * 2) \div fight_ui_grid_rows
fight_ui_labels == IF fight_ui THEN <<"FIGHT", "BAG", "POKEMON", "RUN">> ELSE << >>
combat_ui_move_labels ==
    <<"Context Recall", "Syntax Slash", "Debug Dash", "Prompt Pulse">>

combat_ui_padding == 12
combat_ui_left_grid_total_width == 320
combat_ui_left_grid_content_width ==
    combat_ui_left_grid_total_width - combat_ui_padding * 2
combat_ui_left_grid_cols == 2
combat_ui_left_grid_rows == 2
combat_ui_left_cell_width == combat_ui_left_grid_content_width \div combat_ui_left_grid_cols
combat_ui_left_cell_height ==
    (assets.combat_ui_h - combat_ui_padding * 2) \div combat_ui_left_grid_rows

screen_text_box_width == 96
screen_text_box_height == 21
screen_text_box_bottom_offset == 22
screen_text_box_right_offset == 8

Clamp(v, lo, hi) == Max(lo, Min(v, hi))

(* Index (from 0) of the move under the pointer, or -1 outside the grid.   *)
CombatMoveIndex(mouse_x, mouse_y) ==
    LET left_grid_x == combat_ui_padding
        left_grid_y == SCREEN_HEIGHT - assets.combat_ui_h + combat_ui_padding
    IN  IF left_grid_x <= mouse_x
           /\ mouse_x <= left_grid_x + combat_ui_left_grid_content_width
           /\ left_grid_y <= mouse_y
           /\ mouse_y <= left_grid_y + combat_ui_left_grid_rows * combat_ui_left_cell_height
        THEN LET col == Clamp((mouse_x - left_grid_x) \div combat_ui_left_cell_width,
                              0, combat_ui_left_grid_cols - 1)
                 row == Clamp((mouse_y - left_grid_y) \div combat_ui_left_cell_height,
                              0, combat_ui_left_grid_rows - 1)
             IN  row * combat_ui_left_grid_cols + col
        ELSE 0 - 1

InsideCombatUI(mouse_x, mouse_y) ==
    /\ 0 <= mouse_x /\ mouse_x <= assets.combat_ui_w
    /\ SCREEN_HEIGHT - assets.combat_ui_h <= mouse_y /\ mouse_y <= SCREEN_HEIGHT

clicking_on_text_box(mouse_x, mouse_y) ==
    LET text_box_x == SCREEN_WIDTH - screen_text_box_right_offset - screen_text_box_width
        text_box_y == SCREEN_HEIGHT - screen_text_box_bottom_offset - screen_text_box_height
    IN  /\ text_box_x <= mouse_x /\ mouse_x <= text_box_x + screen_text_box_width
        /\ text_box_y <= mouse_y /\ mouse_y <= text_box_y + screen_text_box_height

(* The (row, col) of the fight-menu button under the pointer, or << >>.    *)
FightCell(mouse_x, mouse_y) ==
    LET relative_x == mouse_x - fight_ui_x - fight_ui_padding
        relative_y == mouse_y - fight_ui_y - fight_ui_padding
    IN  IF /\ fight_ui_x <= mouse_x /\ mouse_x <= fight_ui_x + assets.fight_ui_w
           /\ fight_ui_y <= mouse_y /\ mouse_y <= fight_ui_y + assets.fight_ui_h
           /\ 0 <= relative_x /\ relative_x < assets.fight_ui_w - fight_ui_padding * 2
           /\ 0 <= relative_y /\ relative_y < assets.fight_ui_h - fight_ui_padding * 2
        THEN << Clamp(relative_y \div fight_ui_cell_height, 0, fight_ui_grid_rows - 1),
                Clamp(relative_x \div fight_ui_cell_width, 0, fight_ui_grid_cols - 1) >>
        ELSE << >>

Sfx(s, name) == [s EXCEPT !.played = IF assets.sfx THEN @ \cup {name} ELSE @]

(* The closing block of handle_event: a click while the opponent's dialog  *)
(* is fully shown starts the fade to the battle screen.                    *)
(* The click handler without the dialog_fully_visible test.                *)
ClickStartsFadeEarly(s) ==
    IF s.lugia_animation_complete /\ assets.fighting_background /\ s.fade_state # "faded"
    THEN [s EXCEPT !.fade_state = "fading", !.fade_alpha = 0]
    ELSE s

ClickStartsFade(s) ==
    IF s.lugia_animation_complete /\ s.dialog_fully_visible
       /\ assets.fighting_background /\ s.fade_state # "faded"
    THEN [s EXCEPT !.fade_state = "fading", !.fade_alpha = 0]
    ELSE s

(* The sub-screens with a USE box that keeps them open.                    *)
ClickScreenKeepsOpen(s, mouse_x, mouse_y) ==
    IF clicking_on_text_box(mouse_x, mouse_y)
    THEN Sfx(s, IF s.current_screen = "bag" THEN "denied" ELSE "press_ab")
    ELSE [(IF s.current_screen = "bag" THEN Sfx(s, "press_ab") ELSE s)
            EXCEPT !.current_screen = "battle"]

ClickScreen(s, mouse_x, mouse_y) ==
    IF s.current_screen = "bag"
    THEN IF clicking_on_text_box(mouse_x, mouse_y)
         THEN [Sfx(s, "denied") EXCEPT
                 !.full_hp_text_visible = TRUE, !.full_hp_text_alpha = 255,
                 !.current_screen = "battle",
                 !.fight_ui_selected_cell = IF fight_ui THEN <<0, 1>> ELSE @]
         ELSE [Sfx(s, "press_ab") EXCEPT !.current_screen = "battle"]
    ELSE [(IF clicking_on_text_box(mouse_x, mouse_y) THEN Sfx(s, "press_ab") ELSE s)
            EXCEPT !.current_screen = "battle"]

(* The fight menu with a RUN button that leaves the battle.               *)
ClickFightUIRunEscapes(s, mouse_x, mouse_y) ==
    LET cell == FightCell(mouse_x, mouse_y)
        button_index == cell[1] * fight_ui_grid_cols + cell[2]
        button_label == fight_ui_labels[button_index + 1]
    IN  IF cell = << >> \/ button_index >= Len(fight_ui_labels) THEN s
        ELSE IF button_label = "BAG"
        THEN IF assets.bag_screen
             THEN [Sfx(s, "press_ab") EXCEPT !.current_screen = "bag",
                                             !.fight_ui_selected_cell = cell]
             ELSE Sfx(s, "press_ab")
        ELSE IF button_label = "POKEMON"
        THEN IF assets.pokemon_screen
             THEN [Sfx(s, "press_ab") EXCEPT !.current_screen = "pokemon",
                                             !.fight_ui_selected_cell = cell]
             ELSE Sfx(s, "press_ab")
        ELSE IF button_label = "FIGHT"
        THEN [Sfx(s, "press_ab") EXCEPT
                 !.combat_ui_visible = IF combat_ui THEN TRUE ELSE @]
        ELSE [Sfx(s, "press_ab") EXCEPT !.fade_state = "none",
                                        !.fight_ui_selected_cell = cell]

ClickFightUI(s, mouse_x, mouse_y) ==
    LET cell == FightCell(mouse_x, mouse_y)
        button_index == cell[1] * fight_ui_grid_cols + cell[2]
        button_label == fight_ui_labels[button_index + 1]
    IN  IF cell = << >> \/ button_index >= Len(fight_ui_labels) THEN s
        ELSE IF button_label = "BAG"
        THEN IF assets.bag_screen
             THEN [Sfx(s, "press_ab") EXCEPT !.current_screen = "bag",
                                             !.fight_ui_selected_cell = cell]
             ELSE Sfx(s, "press_ab")
        ELSE IF button_label = "POKEMON"
        THEN IF assets.pokemon_screen
             THEN [Sfx(s, "press_ab") EXCEPT !.current_screen = "pokemon",
                                             !.fight_ui_selected_cell = cell]
             ELSE Sfx(s, "press_ab")
        ELSE IF button_label = "FIGHT"
        THEN [Sfx(s, "press_ab") EXCEPT
                 !.combat_ui_visible = IF combat_ui THEN TRUE ELSE @]
        ELSE [Sfx(s, "denied") EXCEPT !.run_text_visible = TRUE,
                                      !.run_text_alpha = 255,
                                      !.fight_ui_selected_cell = cell]

(* The part of the handler after the combat-menu branch.                   *)
ClickRest(s, mouse_x, mouse_y) ==
    IF s.fade_state = "faded" /\ s.current_screen \in {"bag", "pokemon"}
    THEN ClickScreen(s, mouse_x, mouse_y)
    ELSE IF fight_ui /\ s.fade_state = "faded" /\ s.current_screen = "battle"
            /\ ~s.combat_ui_visible /\ s.move_used_state = "none"
    THEN ClickStartsFade(ClickFightUI(s, mouse_x, mouse_y))
    ELSE ClickStartsFade(s)

(* The handler with a second enabled move.                                *)
mouse_down_any_move(s, mouse_x, mouse_y) ==
    LET s0 == [s EXCEPT !.played = {}]
        move_index == CombatMoveIndex(mouse_x, mouse_y)
        move_name == combat_ui_move_labels[move_index + 1]
    IN  IF s.run_text_visible
        THEN [s0 EXCEPT !.run_text_visible = FALSE, !.fight_ui_selected_cell = << >>]
        ELSE IF s.full_hp_text_visible
        THEN [s0 EXCEPT !.full_hp_text_visible = FALSE,
                        !.fight_ui_selected_cell = << >>]
        ELSE IF s.combat_ui_visible /\ combat_ui /\ s.fade_state = "faded"
        THEN IF move_index >= 0 /\ move_index < Len(combat_ui_move_labels)
             THEN IF move_name \in {"Prompt Pulse", "Debug Dash"}
                  THEN [Sfx(s0, "press_ab") EXCEPT
                          !.move_used_state = "sliding_down",
                          !.move_used_ui_slide_y = 0,
                          !.move_used_dialog_text = "Cursaur used Prompt Pulse!",
                          !.combat_ui_visible = FALSE,
                          !.fight_ui_alpha = IF fight_ui THEN 0 ELSE @]
                  ELSE ClickRest(Sfx(s0, "denied"), mouse_x, mouse_y)
             ELSE IF ~InsideCombatUI(mouse_x, mouse_y)
             THEN [Sfx(s0, "press_ab") EXCEPT !.combat_ui_visible = FALSE]
             ELSE ClickRest(s0, mouse_x, mouse_y)
        ELSE ClickRest(s0, mouse_x, mouse_y)

mouse_down(s, mouse_x, mouse_y) ==
    LET s0 == [s EXCEPT !.played = {}]
        move_index == CombatMoveIndex(mouse_x, mouse_y)
        move_name == combat_ui_move_labels[move_index + 1]
    IN  IF s.run_text_visible
        THEN [s0 EXCEPT !.run_text_visible = FALSE, !.fight_ui_selected_cell = << >>]
        ELSE IF s.full_hp_text_visible
        THEN [s0 EXCEPT !.full_hp_text_visible = FALSE,
                        !.fight_ui_selected_cell = << >>]
        ELSE IF s.combat_ui_visible /\ combat_ui /\ s.fade_state = "faded"
        THEN IF move_index >= 0 /\ move_index < Len(combat_ui_move_labels)
             THEN IF move_name = "Prompt Pulse"
                  THEN [Sfx(s0, "press_ab") EXCEPT
                          !.move_used_state = "sliding_down",
                          !.move_used_ui_slide_y = 0,
                          !.move_used_dialog_text = "Cursaur used Prompt Pulse!",
                          !.combat_ui_visible = FALSE,
                          !.fight_ui_alpha = IF fight_ui THEN 0 ELSE @]
                  ELSE ClickRest(Sfx(s0, "denied"), mouse_x, mouse_y)
             ELSE IF ~InsideCombatUI(mouse_x, mouse_y)
             THEN [Sfx(s0, "press_ab") EXCEPT !.combat_ui_visible = FALSE]
             ELSE ClickRest(s0, mouse_x, mouse_y)
        ELSE ClickRest(s0, mouse_x, mouse_y)

---------------------------------------------------------------------------
(* The two sprite loaders.  An image file is the pair of its width and     *)
(* height in pixels, or NoFile when pygame cannot load it.  load_lugia     *)
(* returns the number of frames in its list; get_sprite returns one        *)
(* surface per call, tagged as cut from the sheet or as the placeholder.   *)

NoFile == << >>

load_lugia(sheet) ==
    LET sprite_size == 132
        num_frames == sheet[1] \div sprite_size
    IN  IF sheet = NoFile THEN 1
        ELSE IF num_frames = 0 THEN 0
        ELSE Cardinality({ i \in 0..(num_frames - 1) :
                             /\ i * sprite_size + sprite_size <= sheet[1]
                             /\ sprite_size <= sheet[2] })

get_sprite(sheet, sprite_width, sprite_height, row, col) ==
    LET sheet_width == IF sheet = NoFile THEN sprite_width ELSE sheet[1]
        sheet_height == IF sheet = NoFile THEN sprite_height ELSE sheet[2]
        x == col * sprite_width
        y == row * sprite_height
    IN  IF /\ x + sprite_width <= sheet_width /\ y + sprite_height <= sheet_height
           /\ x >= 0 /\ y >= 0
        THEN IF sheet = NoFile THEN "placeholder" ELSE "sprite"
        ELSE "placeholder"

---------------------------------------------------------------------------
(* SceneManager.  A scene object is a record: its identity and which of    *)
(* the two optional hooks its class defines.  NoScene is None, also for a  *)
(* name that is not a key of the dict scenes.  calls lists the calls the   *)
(* last method made on scene objects, in order, and op is that method      *)
(* with its argument.                                                      *)

NoScene == [id |-> 0, on_exit |-> FALSE, on_enter |-> FALSE]

SceneNames == {"character_selection", "house_village", "pokemon_selection"}

SceneManager__init__ ==
    [ scenes |-> [name \in SceneNames |-> NoScene],
      current_scene |-> NoScene,
      current_scene_name |-> "",
      calls |-> << >>,
      op |-> <<"__init__", "">> ]

register_scene(m, name, o) ==
    [m EXCEPT !.scenes[name] = o, !.calls = << >>, !.op = <<"register_scene", name>>]

(* change_scene leaving the current scene when the name is unknown.        *)
change_scene_drops_unknown(m, name) ==
    IF m.scenes[name] = NoScene
    THEN [m EXCEPT !.current_scene = NoScene, !.current_scene_name = "",
                   !.calls = IF m.current_scene # NoScene /\ m.current_scene.on_exit
                             THEN << <<"on_exit", m.current_scene.id>> >> ELSE << >>,
                   !.op = <<"change_scene", name>>]
    ELSE [m EXCEPT
            !.current_scene_name = name,
            !.current_scene = m.scenes[name],
            !.calls = (IF m.current_scene # NoScene /\ m.current_scene.on_exit
                       THEN << <<"on_exit", m.current_scene.id>> >> ELSE << >>)
                      \o (IF m.scenes[name].on_enter
                          THEN << <<"on_enter", m.scenes[name].id>> >> ELSE << >>),
            !.op = <<"change_scene", name>>]

(* change_scene calling on_enter on the new scene before on_exit on the    *)
(* old one.                                                                *)
change_scene_enter_first(m, name) ==
    IF m.scenes[name] = NoScene
    THEN [m EXCEPT !.calls = << >>, !.op = <<"change_scene", name>>]
    ELSE [m EXCEPT
            !.current_scene_name = name,
            !.current_scene = m.scenes[name],
            !.calls = (IF m.scenes[name].on_enter
                       THEN << <<"on_enter", m.scenes[name].id>> >> ELSE << >>)
                      \o (IF m.current_scene # NoScene /\ m.current_scene.on_exit
                          THEN << <<"on_exit", m.current_scene.id>> >> ELSE << >>),
            !.op = <<"change_scene", name>>]

change_scene(m, name) ==
    IF m.scenes[name] = NoScene
    THEN [m EXCEPT !.calls = << >>, !.op = <<"change_scene", name>>]
    ELSE [m EXCEPT
            !.current_scene_name = name,
            !.current_scene = m.scenes[name],
            !.calls = (IF m.current_scene # NoScene /\ m.current_scene.on_exit
                       THEN << <<"on_exit", m.current_scene.id>> >> ELSE << >>)
                      \o (IF m.scenes[name].on_enter
                          THEN << <<"on_enter", m.scenes[name].id>> >> ELSE << >>),
            !.op = <<"change_scene", name>>]

(* handle_event, update and render: passed on to the current scene.        *)
forward(m, method) ==
    [m EXCEPT !.calls = IF m.current_scene # NoScene
                        THEN << <<method, m.current_scene.id>> >> ELSE << >>,
              !.op = <<method, "">>]

(* main.py: Game.__init__ registers the three scenes, none of which        *)
(* defines on_exit, and enters the map.                                    *)
GameScene(n) == [id |-> n, on_exit |-> FALSE, on_enter |-> TRUE]

MainManager ==
    change_scene(
        register_scene(
            register_scene(
                register_scene(SceneManager__init__,
                               "character_selection", GameScene(1)),
                "house_village", GameScene(2)),
            "pokemon_selection", GameScene(3)),
        "house_village")

---------------------------------------------------------------------------
(* The state machine.  main.py constructs the scene and SceneManager       *)
(* enters it; after that the game loop hands it events and one update()    *)
(* per frame.  obs is the observer: what the last step was, how long ago   *)
(* the collision sound was heard, how many updates the slide-in has had.   *)

MaxSlideTicks == 70
MaxClicks == 3
MaxReplayClicks == 4
MaxKeys == 3
MaxCell == 31
MaxHitches == 1
MaxRestarts == 1
LongFrame == 100

InitObs ==
    [ last |-> "init",
      collision_since |-> collision_sound_stagger,
      collision_gap |-> collision_sound_stagger,
      slide_ticks |-> 0, clicks |-> 0, keys |-> 0, dt |-> 0, hitches |-> 0,
      cries |-> 0, restarts |-> 0, since_full |-> 0 - 1,
      move_used_state |-> "none", showing |-> 0,
      probe |-> <<0, 0>>, walkable |-> FALSE ]

Observe(o, s, kind, dt) ==
    LET heard == "collision" \in s.played
        since == Min(o.collision_since + dt, collision_sound_stagger)
    IN  [o EXCEPT !.last = kind,
                  !.dt = dt,
                  !.hitches = IF dt > LongFrame THEN Min(@ + 1, MaxHitches + 1) ELSE @,
                  !.cries =
                      IF kind = "restart" THEN 0
                      ELSE IF kind = "tick" /\ "cry" \in s.played /\ ~s.end_scene_active
                      THEN Min(@ + 1, 2)
                      ELSE @,
                  !.restarts = IF kind = "restart" THEN Min(@ + 1, MaxRestarts + 1) ELSE @,
                  !.move_used_state = s.move_used_state,
                  !.showing =
                      IF s.move_used_state = "dialog_showing"
                      THEN IF o.move_used_state = "dialog_showing"
                           THEN Min(@ + dt, move_used_wait_duration) ELSE 0
                      ELSE IF s.move_used_state = "fading_black"
                      THEN IF o.move_used_state = "dialog_showing"
                           THEN Min(@ + dt, move_used_wait_duration) ELSE @
                      ELSE 0,
                  !.since_full =
                      IF ~s.dialog_fully_visible THEN 0 - 1
                      ELSE IF @ < 0 THEN 0
                      ELSE Min(@ + dt, dialog_pause_duration),
                  !.collision_since = IF heard THEN 0 ELSE since,
                  !.collision_gap = IF heard THEN since ELSE @,
                  !.slide_ticks =
                      IF ~s.battle_animations_started THEN 0
                      ELSE IF kind = "tick" THEN Min(@ + 1, MaxSlideTicks)
                      ELSE @,
                  !.clicks = IF kind = "click"
                             THEN Min(@ + 1, Max(MaxClicks, MaxReplayClicks) + 1)
                             ELSE @,
                  !.keys = IF kind = "key" THEN Min(@ + 1, MaxKeys + 1) ELSE @]

Init ==
    /\ assets = StdAssets
    /\ scene = FreshScene
    /\ obs = InitObs
    /\ manager = MainManager

Tick(dt) ==
    /\ scene' = update(scene, dt)
    /\ obs' = Observe(obs, scene', "tick", dt)
    /\ UNCHANGED <<assets, manager>>

KeyDown(key) ==
    /\ scene' = key_down(scene, key)
    /\ obs' = Observe(obs, scene', "key", 0)
    /\ UNCHANGED <<assets, manager>>

KeyUp(key) ==
    /\ scene' = key_up(scene, key)
    /\ obs' = Observe(obs, scene', "key", 0)
    /\ UNCHANGED <<assets, manager>>

Click(mouse_x, mouse_y) ==
    /\ scene' = mouse_down(scene, mouse_x, mouse_y)
    /\ obs' = Observe(obs, scene', "click", 0)
    /\ UNCHANGED <<assets, manager>>

Restart ==
    /\ scene' = restart(scene)
    /\ obs' = Observe(obs, scene', "restart", 0)
    /\ UNCHANGED <<assets, manager>>

ToggleMute ==
    /\ scene' = Mute(scene)
    /\ obs' = Observe(obs, scene', "mute", 0)
    /\ UNCHANGED <<assets, manager>>

Keys == {"up", "down", "left", "right"}
Dts == {16, 17, 33, 250, 1000}
ClickPoints == { <<260, 240>>, <<400, 240>>, <<260, 280>>, <<400, 280>>, <<10, 10>> }

Next ==
    \/ \E dt \in Dts : Tick(dt)
    \/ \E key \in Keys : KeyDown(key)
    \/ \E key \in Keys : KeyUp(key)
    \/ \E p \in ClickPoints : Click(p[1], p[2])
    \/ Restart
    \/ ToggleMute

Spec == Init /\ [][Next]_vars

---------------------------------------------------------------------------
(* Walkability of a cell, as a function of the cell alone.                 *)

InitProbe ==
    /\ assets = StdAssets
    /\ scene = FreshScene
    /\ \E cell_x \in 0..MaxCell, cell_y \in 0..MaxCell :
          obs = [InitObs EXCEPT !.probe = <<cell_x, cell_y>>]
    /\ manager = MainManager

Probe ==
    /\ obs.last = "init"
    /\ obs' = [obs EXCEPT !.last = "probe",
                          !.walkable = is_cell_walkable_check(obs.probe[1], obs.probe[2])]
    /\ UNCHANGED <<scene, assets, manager>>

SpecProbe == InitProbe /\ [][Probe]_vars

---------------------------------------------------------------------------
(* The walk: at 60 frames a second the player presses and releases Up and  *)
(* Right, MaxKeys times in all, until the opponent appears.                *)

WalkDt == 16
WalkKeys == {"up", "right"}

Walking == scene.lugia_state = "hidden"

NextWalk ==
    \/ Walking /\ Tick(WalkDt)
    \/ \E key \in WalkKeys :
          Walking /\ obs.keys < MaxKeys /\ ~scene["moving_" \o key] /\ KeyDown(key)
    \/ \E key \in WalkKeys :
          Walking /\ obs.keys < MaxKeys /\ scene["moving_" \o key] /\ KeyUp(key)

SpecWalk == Init /\ [][NextWalk]_vars

---------------------------------------------------------------------------
(* A whole game: the player walks up into the opponent, clicks through     *)
(* the battle, and may press R at any moment; the run is followed up to    *)
(* the state R leaves.                                                     *)

GameDt == 50

Playing == obs.last # "restart"

NextGame ==
    \/ Playing /\ Tick(GameDt)
    \/ Playing /\ scene.lugia_state = "hidden" /\ ~scene.moving_up /\ KeyDown("up")
    \/ Playing /\ obs.clicks < MaxClicks /\ \E p \in ClickPoints : Click(p[1], p[2])
    \/ Playing /\ Restart

SpecGame == Init /\ [][NextGame]_vars

---------------------------------------------------------------------------
(* The battle intro for several sets of images: the player walks up into   *)
(* the opponent and watches.  The widths decide the slide distances; the   *)
(* float sums of any of the elements may land short of the target.         *)

BattleDt == 16

GrassWidths == {256, 100}
WaterWidths == {256, 64}
OpponentWidths == {64, 80}
TrainerFrames == {3, 0}
FloatElements == {"grass", "pokemonstat", "water", "lugia"}

BattleAssets ==
    { [StdAssets EXCEPT !.battle_grass_w = g, !.battle_water_w = w,
                        !.battle_lugia_w = l, !.battle_trainer_sprites = n,
                        !.rounds_short = r] :
        g \in GrassWidths, w \in WaterWidths, l \in OpponentWidths,
        n \in TrainerFrames, r \in SUBSET FloatElements }

InitBattle ==
    /\ assets \in BattleAssets
    /\ scene = FreshScene
    /\ obs = InitObs
    /\ manager = MainManager

NextBattle ==
    \/ Tick(BattleDt)
    \/ scene.lugia_state = "hidden" /\ ~scene.moving_up /\ KeyDown("up")

SpecBattle == InitBattle /\ [][NextBattle]_vars

(* The game loop calls update() once per frame for as long as the program  *)
(* runs.                                                                   *)
TriggerAssets ==
    { [StdAssets EXCEPT !.battle_water_w = w, !.battle_lugia_w = l,
                        !.battle_trainer_sprites = n] :
        w \in WaterWidths, l \in OpponentWidths, n \in TrainerFrames }

InitTrigger ==
    /\ assets \in TriggerAssets /\ scene = FreshScene /\ obs = InitObs
    /\ manager = MainManager

SpecBattleFair == InitTrigger /\ [][NextBattle]_vars /\ WF_vars(Tick(BattleDt))

(* The attack: the player walks in, waits for the menu, clicks FIGHT and   *)
(* then Prompt Pulse.  Frames take AttackDt; while the attack runs a frame *)
(* may also take HitchDt.                                                  *)
AttackDt == 50
HitchDt == 1000
AttackClicks == { <<260, 240>>, <<260, 280>> }
MenuShown ==
    /\ scene.fade_state = "faded" /\ scene.move_used_state = "none"
    /\ scene.fight_ui_alpha = 255 \/ scene.combat_ui_visible

NextAttack ==
    \/ Tick(AttackDt)
    \/ scene.move_used_state = "fading_black" /\ Tick(HitchDt)
    \/ scene.lugia_state = "hidden" /\ ~scene.moving_up /\ KeyDown("up")
    \/ \E p \in AttackClicks :
          MenuShown /\ obs.clicks < MaxClicks /\ Click(p[1], p[2])

SpecAttack == Init /\ [][NextAttack]_vars

(* The attack and the end sequence at a frame time that divides none of    *)
(* the durations, with at most MaxHitches long frames anywhere in them.    *)
EndDt == 70
EndHitchDt == 250

NextEnd ==
    \/ Tick(EndDt)
    \/ /\ scene.move_used_state = "fading_black" \/ scene.end_scene_active
       /\ obs.hitches < MaxHitches
       /\ Tick(EndHitchDt)
    \/ scene.lugia_state = "hidden" /\ ~scene.moving_up /\ KeyDown("up")
    \/ \E p \in AttackClicks :
          MenuShown /\ obs.clicks < MaxClicks /\ Click(p[1], p[2])

SpecEnd == Init /\ [][NextEnd]_vars

(* The player keeps clicking the menu cells after the attack: the clicks   *)
(* of the attack, and up to MaxReplayClicks clicks in all, the later ones  *)
(* while the end sequence runs.                                            *)
ReplayDt == 100

NextReplay ==
    \/ Tick(ReplayDt)
    \/ scene.lugia_state = "hidden" /\ ~scene.moving_up /\ KeyDown("up")
    \/ \E p \in AttackClicks :
          /\ MenuShown \/ scene.end_scene_active
          /\ obs.clicks < MaxReplayClicks
          /\ Click(p[1], p[2])

SpecReplay == Init /\ [][NextReplay]_vars

(* The player walks up into the trigger row; while the cutscene and the    *)
(* dialog own control direction keys are pressed and released at any       *)
(* moment, up to MaxKeys key events in all, until the fade to the battle   *)
(* starts.                                                                 *)
NextLock ==
    \/ scene.fade_state = "none" /\ Tick(WalkDt)
    \/ scene.lugia_state = "hidden" /\ ~scene.moving_up /\ KeyDown("up")
    \/ \E key \in Keys :
          MovementLocked(scene) /\ obs.keys < MaxKeys /\ KeyDown(key)
    \/ \E key \in Keys :
          MovementLocked(scene) /\ obs.keys < MaxKeys /\ KeyUp(key)

SpecLock == Init /\ [][NextLock]_vars

(* The cutscene for sprite sheets of several lengths, with and without the *)
(* sound files: the player walks up into the trigger row and watches until *)
(* the fade to the battle starts; R may be pressed at any moment, up to    *)
(* MaxRestarts times, and the game is then played again.                   *)
CutsceneFrames == {0, 1, 2, 3, 5}

InitCutsceneRun ==
    /\ assets \in { [StdAssets EXCEPT !.lugia_sprites = n, !.sfx = b] :
                       n \in CutsceneFrames, b \in BOOLEAN }
    /\ scene = FreshScene
    /\ obs = InitObs
    /\ manager = MainManager

NextCutscene ==
    \/ scene.fade_state = "none" /\ Tick(WalkDt)
    \/ scene.lugia_state = "hidden" /\ ~scene.moving_up /\ KeyDown("up")
    \/ obs.restarts < MaxRestarts /\ Restart

SpecCutscene == InitCutsceneRun /\ [][NextCutscene]_vars

(* The cutscene dialog: the player walks up into the trigger row and       *)
(* clicks at any moment of the cutscene, the dialog slide, the pause and   *)
(* the fade (up to MaxClicks clicks); a frame of the pause may be a long   *)
(* one, and R may be pressed while the dialog is up.                       *)
NextDialog ==
    \/ scene.fade_state # "faded" /\ Tick(WalkDt)
    \/ /\ scene.dialog_visible /\ scene.fade_state = "none"
       /\ obs.hitches < MaxHitches
       /\ Tick(EndHitchDt)
    \/ scene.lugia_state = "hidden" /\ ~scene.moving_up /\ KeyDown("up")
    \/ /\ scene.lugia_state # "hidden" /\ scene.fade_state # "faded"
       /\ obs.clicks < MaxClicks
       /\ Click(10, 10)
    \/ /\ scene.dialog_visible /\ scene.fade_state = "none"
       /\ obs.restarts < MaxRestarts
       /\ Restart

SpecDialog == Init /\ [][NextDialog]_vars

(* The attack up to the start of the end sequence, with one long frame of  *)
(* 250 or 1000 ms anywhere in it.                                          *)
MoveHitches == {EndHitchDt, HitchDt}

NextMove ==
    \/ ~scene.end_scene_active /\ Tick(EndDt)
    \/ \E dt \in MoveHitches :
          /\ scene.move_used_state # "none" /\ obs.hitches < MaxHitches
          /\ Tick(dt)
    \/ scene.lugia_state = "hidden" /\ ~scene.moving_up /\ KeyDown("up")
    \/ \E p \in AttackClicks :
          MenuShown /\ obs.clicks < MaxClicks /\ Click(p[1], p[2])

SpecMove == Init /\ [][NextMove]_vars

---------------------------------------------------------------------------
(* The battle menus: once the battle screen is up the player clicks, up to *)
(* MaxClicks times, on the four buttons of the fight menu, on the four     *)
(* moves of the move menu, or outside both; the USE box of the sub-screens *)
(* lies under the RUN button.                                              *)

MenuPoints == ClickPoints \cup { <<20, 240>>, <<20, 280>> }

NextMenu ==
    \/ Tick(GameDt)
    \/ scene.lugia_state = "hidden" /\ ~scene.moving_up /\ KeyDown("up")
    \/ \E p \in MenuPoints :
          /\ scene.fade_state = "faded" /\ obs.clicks < MaxClicks
          /\ Click(p[1], p[2])

SpecMenu == Init /\ [][NextMenu]_vars

---------------------------------------------------------------------------
(* The scene manager on its own: a program registers scenes under two of   *)
(* the names, registers again under a name already taken, changes to       *)
(* any of the three names, one of which is never registered, and runs the  *)
(* game loop.  The scenes differ in the hooks they define.                 *)

ManagedScenes ==
    { [id |-> 1, on_exit |-> FALSE, on_enter |-> TRUE],
      [id |-> 2, on_exit |-> TRUE,  on_enter |-> TRUE],
      [id |-> 3, on_exit |-> TRUE,  on_enter |-> FALSE] }

RegisteredNames == {"house_village", "pokemon_selection"}

ForwardedMethods == {"handle_event", "update", "render"}

InitManager ==
    /\ assets = StdAssets
    /\ scene = FreshScene
    /\ obs = InitObs
    /\ manager = SceneManager__init__

RegisterScene(name, o) ==
    /\ manager' = register_scene(manager, name, o)
    /\ UNCHANGED <<scene, assets, obs>>

ChangeScene(name) ==
    /\ manager' = change_scene(manager, name)
    /\ UNCHANGED <<scene, assets, obs>>

Forward(method) ==
    /\ manager' = forward(manager, method)
    /\ UNCHANGED <<scene, assets, obs>>

NextManager ==
    \/ \E name \in RegisteredNames, o \in ManagedScenes : RegisterScene(name, o)
    \/ \E name \in SceneNames : ChangeScene(name)
    \/ \E method \in ForwardedMethods : Forward(method)

SpecManager == InitManager /\ [][NextManager]_vars

---------------------------------------------------------------------------
(* The cutscene with the opponent's frames cut from sheets of several      *)
(* sizes, one of them missing: 132 x 132 is one frame, 660 x 132 is five,  *)
(* and a sheet narrower or lower than 132 is too small for one.            *)

SheetWidths == {100, 132, 263, 396, 660}
SheetHeights == {100, 132}
LugiaSheets == (SheetWidths \X SheetHeights) \cup {NoFile}

InitSheet ==
    /\ \E sheet \in LugiaSheets :
          /\ assets = [StdAssets EXCEPT !.lugia_sprites = load_lugia(sheet)]
          /\ obs = [InitObs EXCEPT !.probe = sheet]
    /\ scene = FreshScene
    /\ manager = MainManager

SpecSheet == InitSheet /\ [][NextCutscene]_vars

(* The attack for every combination of the optional images: the charge     *)
(* sheet with one frame or two, the opponent sprite, the grass and the     *)
(* player's creature present or missing.  The player walks in, waits for   *)
(* the menu, clicks FIGHT and Prompt Pulse and watches; the game loop      *)
(* calls update() once per frame for as long as the program runs.          *)
ChargeFrames == {1, 2}
OptionalWidths(w) == {w, 0}

AttackAssets ==
    { [StdAssets EXCEPT !.prompt_pulse_charge_frames = f, !.battle_lugia_w = l,
                        !.battle_grass_w = g, !.battle_venu_w = v] :
        f \in ChargeFrames, l \in OptionalWidths(64),
        g \in OptionalWidths(256), v \in OptionalWidths(64) }

InitAssets ==
    /\ assets \in AttackAssets /\ scene = FreshScene /\ obs = InitObs
    /\ manager = MainManager

NextAssets ==
    \/ Tick(AttackDt)
    \/ scene.lugia_state = "hidden" /\ ~scene.moving_up /\ KeyDown("up")
    \/ \E p \in AttackClicks :
          MenuShown /\ obs.clicks < MaxClicks /\ Click(p[1], p[2])

SpecAssetsFair == InitAssets /\ [][NextAssets]_vars /\ WF_vars(Tick(AttackDt))

---------------------------------------------------------------------------
(* Properties of the R key.                                                *)

(* An attribute exists unless it is one of those delattr can remove and    *)
(* has been removed.                                                       *)
HasAttribute(s, f) == f \notin {"battle_venu_x", "battle_venu_y"} \/ f \in s.attrs

SameAsFresh(f) ==
    /\ HasAttribute(scene, f) = HasAttribute(FreshScene, f)
    /\ scene[f] = FreshScene[f]

PhaseVariables ==
    {"lugia_state", "fade_state", "move_used_state", "end_scene_active",
     "end_scene_fainted_text_active", "end_scene_black_bg_active",
     "end_scene_venusaur_active", "end_scene_pokemon_shine_active",
     "end_scene_bg_active", "end_scene_cursor_active",
     "end_scene_press_r_active", "end_scene_press_r_fade_complete"}

BattleElementVariables ==
    {"battle_grass_left_x", "battle_grass_visible",
     "battle_pokemonstat_x", "battle_pokemonstat_visible",
     "battle_water_x", "battle_water_visible",
     "battle_lugia_x", "battle_lugia_y", "battle_lugia_visible", "battle_lugia_alpha",
     "battle_trainer_x", "battle_trainer_visible", "battle_trainer_alpha",
     "battle_venu_x", "battle_venu_y", "battle_venu_visible",
     "battle_venu_stat_visible",
     "battle_dialog_alpha", "battle_dialog_visible", "fight_ui_alpha"}

(* C1: in the state the R key leaves, before any tick, the phase variables *)
(* (lugia_state, fade_state, move_used_state, end_scene_active and every   *)
(* end-sequence sub-phase flag) and every battle element's position, alpha *)
(* and visibility are those of a freshly constructed scene.                *)
C1_RestartEqualsFresh ==
    obs.last = "restart" =>
        \A f \in PhaseVariables \cup BattleElementVariables : SameAsFresh(f)

TimersAndFlags ==
    {"run_text_visible", "full_hp_text_visible",
     "exclamation_visible", "exclamation_state",
     "exclamation_sound_played", "trainer_animation_sound_played",
     "venusaur_slide_sound_played", "spore_sound_played",
     "spike_cannon_sound_played", "lugia_cry_played",
     "collision_sound_playing", "move_used_wait_timer", "lugia_animation_time"}

(* C2: in the state the R key leaves, every phase timer and boolean flag   *)
(* outside the battle elements (run_text_visible, full_hp_text_visible,    *)
(* the exclamation state, the sound-already-played flags, the collision    *)
(* sound gate, move_used_wait_timer, the cutscene frame timer) has the     *)
(* value the constructor gives it.                                         *)
C2_RestartResetsTimersAndFlags ==
    obs.last = "restart" => \A f \in TimersAndFlags : SameAsFresh(f)

---------------------------------------------------------------------------
(* Properties of the walkable area.                                        *)

InSomeRectangle(cell) ==
    \E i \in 1..Len(walkable_rectangles) :
        LET r == walkable_rectangles[i]
        IN  /\ r[1] <= cell[1] /\ cell[1] <= r[3]
            /\ r[2] <= cell[2] /\ cell[2] <= r[4]

InCellSet(cell) == \E j \in 1..Len(walkable_cells) : walkable_cells[j] = cell

(* C3: a cell is walkable exactly when it lies in one of the rectangles,   *)
(* both corners included, or is one of the listed cells; with the          *)
(* rectangle (15, 4, 16, 7) the cells (15, 4) and (16, 7) are walkable     *)
(* and (14, 4) is not.                                                     *)
C3_WalkableExactly ==
    obs.last = "probe" =>
        /\ obs.walkable = (InSomeRectangle(obs.probe) \/ InCellSet(obs.probe))
        /\ \E i \in 1..Len(walkable_rectangles) : walkable_rectangles[i] = <<15, 4, 16, 7>>
        /\ obs.probe \in {<<15, 4>>, <<16, 7>>} => obs.walkable
        /\ obs.probe = <<14, 4>> => ~obs.walkable

C3_FarCornerProbed ==
    obs.last = "probe" /\ obs.probe = <<16, 7>> /\ obs.walkable

---------------------------------------------------------------------------
(* Properties of the walk.                                                 *)

(* The cell under the centre of the position the player asks for: the old  *)
(* position plus the keys' delta, kept inside the map.                     *)
AskedCell(s) ==
    LET dx == (IF s.moving_right THEN PLAYER_SPEED ELSE 0)
              - (IF s.moving_left THEN PLAYER_SPEED ELSE 0)
        dy == (IF s.moving_down THEN PLAYER_SPEED ELSE 0)
              - (IF s.moving_up THEN PLAYER_SPEED ELSE 0)
        new_x == Max(margin, Min(s.player_world_x + dx, map_width - player_width - margin))
        new_y == Max(margin, Min(s.player_world_y + dy, map_height - player_height - margin))
    IN  << (new_x + player_width \div 2) \div grid_size,
           (new_y + player_height \div 2) \div grid_size >>

AsksClosedCell(s) ==
    /\ ~MovementLocked(s)
    /\ (s.moving_left # s.moving_right) \/ (s.moving_up # s.moving_down)
    /\ ~(InSomeRectangle(AskedCell(s)) \/ InCellSet(AskedCell(s)))

(* C4: a tick whose proposed position (position plus delta, clamped to the *)
(* map) has its centre in a non-walkable cell leaves the player's world    *)
(* position unchanged.                                                     *)
C4_BlockedTickKeepsPosition ==
    [][ (obs'.last = "tick" /\ AsksClosedCell(scene)) =>
            /\ scene'.player_world_x = scene.player_world_x
            /\ scene'.player_world_y = scene.player_world_y ]_vars

(* A tick has just been refused: the keys still ask for a closed cell and  *)
(* the refusal was heard.                                                  *)
C4_TickRefused ==
    obs.last = "tick" /\ AsksClosedCell(scene) /\ "collision" \in scene.played

(* C5: while a direction key is held against a non-walkable boundary, the  *)
(* collision sound plays at most once in any window of 750 ms: two plays   *)
(* are never less than 750 ms apart.                                       *)
C5_CollisionSoundStaggered ==
    (scene.moving_up \/ scene.moving_right) =>
        obs.collision_gap >= collision_sound_stagger

---------------------------------------------------------------------------
(* Properties of the slide-in.                                             *)

SlideElements == {"grass", "pokemonstat", "water", "trainer"}

Present(e) ==
    IF e = "grass" THEN battle_grass
    ELSE IF e = "pokemonstat" THEN battle_pokemonstat
    ELSE IF e = "water" THEN battle_water
    ELSE IF e = "trainer" THEN battle_trainer_sprites
    ELSE battle_lugia /\ battle_water

AtTarget(s, e) ==
    IF e = "grass" THEN s.battle_grass_left_x = U(battle_grass_left_target_x)
    ELSE IF e = "pokemonstat" THEN s.battle_pokemonstat_x = U(battle_pokemonstat_target_x)
    ELSE IF e = "water" THEN s.battle_water_x = U(battle_water_target_x)
    ELSE IF e = "trainer" THEN s.battle_trainer_x = U(battle_trainer_target_x)
    ELSE s.battle_lugia_x = U(battle_lugia_target_x)

AllAtTarget(s, elements) == \A e \in elements : Present(e) => AtTarget(s, e)
SomeAtTarget(s, elements) == \E e \in elements : Present(e) /\ AtTarget(s, e)

(* A tick of the slide-in: the fade has completed, no move is in progress  *)
(* and the trainer has not begun to leave.                                 *)
SlideInTick ==
    /\ obs'.last = "tick"
    /\ scene'.battle_animations_started
    /\ scene'.move_used_state = "none"
    /\ ~scene'.battle_trainer_slide_out

(* ceil(max(d) / base_speed) + 1.                                          *)
SlideTicksAllowed ==
    (max_distance + battle_slide_speed_base - 1) \div battle_slide_speed_base + 1

(* Ticks an element needs from x to the target at the given speed.         *)
RECURSIVE TicksToTarget(_, _, _)
TicksToTarget(x, speed, target) ==
    IF x >= target THEN 0
    ELSE 1 + TicksToTarget(SlideRight(x, speed, target, FALSE), speed, target)

(* C6: grass, stat panel, water and trainer, whose speed is                *)
(* base * d / max(d), start on the tick the fade completes, reach their    *)
(* targets within one tick of each other (once one has been at its target  *)
(* for a tick, all are), and all are there after ceil(max(d) / base) + 1   *)
(* ticks; distances 100 and 50 with base 10 both take 10 ticks.            *)
C6_SlideInTogether ==
    [][ SlideInTick =>
          /\ (scene.battle_animations_started /\ SomeAtTarget(scene, SlideElements))
                => AllAtTarget(scene', SlideElements)
          /\ obs'.slide_ticks >= SlideTicksAllowed => AllAtTarget(scene', SlideElements)
          /\ TicksToTarget(0 - 100 * 100, ProportionalSpeed(100, 100, 10), 0) = 10
          /\ TicksToTarget(0 - 50 * 100, ProportionalSpeed(50, 100, 10), 0) = 10 ]_vars

(* The trainer is at its target and the grass, whose float sum landed      *)
(* short, is one tick behind.                                              *)
C6_OneTickApart ==
    /\ obs.last = "tick" /\ scene.battle_animations_started
    /\ obs.slide_ticks = SlideTicksAllowed - 1
    /\ AtTarget(scene, "trainer") /\ Present("trainer")
    /\ Present("grass") /\ ~AtTarget(scene, "grass")

(* C7: the opponent sprite reaches its target within one tick of the       *)
(* grass, stat panel, water and trainer, whatever the widths of the water  *)
(* and of the opponent sprite.                                             *)
C7_OpponentSlidesInTogether ==
    [][ (SlideInTick /\ scene.battle_animations_started /\ Present("lugia")) =>
          /\ AtTarget(scene, "lugia") => AllAtTarget(scene', SlideElements)
          /\ SomeAtTarget(scene, SlideElements) => AtTarget(scene', "lugia") ]_vars

(* C8: battle_trainer_can_animate becomes true, and the trainer's frame    *)
(* index leaves 0, only in a state where grass, stat panel, water,         *)
(* opponent sprite and trainer are exactly at their targets.               *)
C8_ThrowWaitsForAllSlideIns ==
    [][ ( \/ ~scene.battle_trainer_can_animate /\ scene'.battle_trainer_can_animate
          \/ scene.battle_trainer_current_frame = 0
             /\ scene'.battle_trainer_current_frame # 0 )
        => AllAtTarget(scene', SlideElements \cup {"lugia"}) ]_vars

---------------------------------------------------------------------------
(* End to end, from the trigger cell to the battle.                        *)

BattleElements == SlideElements \cup {"lugia"}

(* The player's cell has entered the trigger region and the cutscene has   *)
(* not yet reached the dialog.                                             *)
Triggered == under_lugia(scene) /\ ~scene.dialog_visible

(* C9: once the player's cell has entered the trigger region under the     *)
(* cutscene sprite, ticks alone eventually show the dialog text            *)
(* "Bugia wants to battle!", eventually reach fade_state "faded", and      *)
(* eventually have every battle slide-in element at its target.            *)
C9_TriggerLeadsToBattle ==
    /\ Triggered ~> scene.dialog_text = "Bugia wants to battle!"
    /\ Triggered ~> scene.fade_state = "faded"
    /\ Triggered ~> AllAtTarget(scene, BattleElements)

(* The first two stages alone.                                             *)
C9_DialogThenFaded ==
    /\ Triggered ~> scene.dialog_text = "Bugia wants to battle!"
    /\ Triggered ~> scene.fade_state = "faded"

(* The last stage for the four elements with a speed of their own.         *)
C9_FourArrive == Triggered ~> AllAtTarget(scene, SlideElements)

(* The trigger has just fired.                                             *)
C9_JustTriggered == Triggered /\ obs.last = "tick"

---------------------------------------------------------------------------
(* The end of the attack.                                                  *)

(* The tick in which screen_shake_timer reaches screen_shake_duration: the *)
(* shake was running, or it started in this very tick.                     *)
ShakeCompletes ==
    /\ obs'.last = "tick"
    /\ \/ scene.screen_shake_active
          /\ scene.screen_shake_timer + obs'.dt >= screen_shake_duration
       \/ ~scene.screen_shake_triggered_after_pulse
          /\ scene'.screen_shake_triggered_after_pulse
          /\ obs'.dt >= screen_shake_duration

(* The fade-out runs after the tick, or has run and completed within it.   *)
FadeOutStarted ==
    \/ scene'.fade_out_after_shake
    \/ scene.move_used_state = "fading_black" /\ scene'.move_used_state = "none"

(* The tick in which fade_out_timer reaches fade_out_duration.             *)
FadeOutCompletes ==
    /\ obs'.last = "tick"
    /\ \/ scene.fade_out_after_shake
          /\ scene.fade_out_timer + obs'.dt >= fade_out_duration
       \/ ShakeCompletes /\ scene.move_back_complete /\ ~scene.fade_out_after_shake
          /\ obs'.dt >= fade_out_duration

BackInBattle(s) ==
    /\ s.move_used_state = "none"
    /\ s.black_block_alpha = 0 /\ s.black_block_fade_out_alpha = 0
    /\ s.attack_pulse_end_alpha = 0
    /\ ~s.screen_shake_active
    /\ s.battle_text_lugia_alpha = 255 /\ s.battle_text_venusaur_alpha = 0

(* C10: whatever the elapsed times of the ticks, when the screen-shake     *)
(* timer reaches its duration the overlay fade-out starts, and when the    *)
(* fade-out completes the scene is, in that same tick, back in             *)
(* move_used_state "none" with the black and attack overlays at alpha 0,   *)
(* the shake inactive, lugia text alpha 255 and venusaur text alpha 0.     *)
C10_ShakeThenFadeOutThenBattle ==
    [][ /\ ShakeCompletes => FadeOutStarted
        /\ FadeOutCompletes => BackInBattle(scene') ]_vars

(* The second half alone.                                                  *)
C10_FadeOutReturnsToBattle == [][ FadeOutCompletes => BackInBattle(scene') ]_vars

---------------------------------------------------------------------------
(* The end sequence.                                                       *)

(* The tick in which the attack sequence completes: move_used_state        *)
(* returns from "fading_black" to "none".                                  *)
AttackCompletes ==
    /\ obs'.last = "tick"
    /\ scene.move_used_state = "fading_black"
    /\ scene'.move_used_state = "none"

(* end_scene_active is set only by a completing attack and cleared by R.   *)
EndSceneOnlyAfterAttack ==
    /\ (~scene.end_scene_active /\ scene'.end_scene_active) => AttackCompletes
    /\ obs'.last = "restart" => ~scene'.end_scene_active

(* C11: the end sequence starts in the very tick the attack sequence       *)
(* completes, with health-bar timer 0 and width 96 after that tick, and    *)
(* end_scene_active is never true before an attack has completed since     *)
(* the last restart.                                                       *)
C11_EndSceneStartsAtZero ==
    [][ /\ AttackCompletes =>
              /\ scene'.end_scene_active
              /\ scene'.end_scene_health_bar_timer = 0
              /\ scene'.end_scene_health_bar_width = end_scene_health_bar_initial_width
        /\ EndSceneOnlyAfterAttack ]_vars

(* C11, amended: the end sequence starts in the very tick the attack       *)
(* sequence completes and has already advanced by that tick's elapsed      *)
(* time when the tick ends (timer dt, width int(96 * (1 - dt / 2000)));    *)
(* end_scene_active is never true before an attack has completed since     *)
(* the last restart.                                                       *)
C11_EndSceneStartsWithAttackEnd ==
    [][ /\ AttackCompletes =>
              /\ scene'.end_scene_active
              /\ scene'.end_scene_health_bar_timer = obs'.dt
              /\ scene'.end_scene_health_bar_width =
                     (end_scene_health_bar_initial_width
                      * (end_scene_health_bar_duration - obs'.dt))
                     \div end_scene_health_bar_duration
        /\ EndSceneOnlyAfterAttack ]_vars

(* The state after the tick that ended the attack.                         *)
C11_EndSceneJustStarted ==
    /\ obs.last = "tick" /\ obs.dt > 0
    /\ scene.end_scene_active /\ scene.move_used_state = "none"
    /\ scene.end_scene_health_bar_timer = obs.dt

(* The phases of the end sequence in order: whether phase i has made       *)
(* progress, and whether it is complete.                                   *)
EndPhases == 1..11

EndPhaseProgressed(s, i) ==
    CASE i = 1 -> s.end_scene_health_bar_timer > 0
      [] i = 2 -> s.end_scene_health_bar_pause_timer > 0
      [] i = 3 -> s.end_scene_lugia_fall_timer > 0
      [] i = 4 -> s.end_scene_fainted_text_active
      [] i = 5 -> s.end_scene_black_bg_delay_timer > 0
      [] i = 6 -> s.end_scene_black_bg_active
      [] i = 7 -> s.end_scene_venusaur_fade_timer > 0
      [] i = 8 -> s.end_scene_venusaur_slide_timer > 0
      [] i = 9 -> s.end_scene_pokemon_shine_active
      [] i = 10 -> s.end_scene_bg_active
      [] i = 11 -> s.end_scene_cursor_active \/ s.end_scene_press_r_active

EndPhaseComplete(s, i) ==
    CASE i = 1 -> s.end_scene_health_bar_timer >= end_scene_health_bar_duration
      [] i = 2 -> s.end_scene_health_bar_pause_timer >= end_scene_health_bar_pause_duration
      [] i = 3 -> s.end_scene_lugia_fall_timer >= end_scene_lugia_fall_duration
      [] i = 4 -> s.end_scene_fainted_text_timer >= end_scene_fainted_text_duration
      [] i = 5 -> s.end_scene_black_bg_delay_timer >= end_scene_black_bg_delay_duration
      [] i = 6 -> s.end_scene_black_bg_timer >= end_scene_black_bg_duration
      [] i = 7 -> s.end_scene_venusaur_fade_timer >= end_scene_venusaur_fade_duration
      [] i = 8 -> s.end_scene_venusaur_slide_timer >= end_scene_venusaur_slide_duration
      [] i = 9 -> s.end_scene_pokemon_shine_fade_timer
                      >= end_scene_pokemon_shine_fade_duration
      [] i = 10 -> s.end_scene_bg_slide_timer >= end_scene_bg_slide_duration
      [] i = 11 -> s.end_scene_press_r_fade_complete

Gated(s, i, j) == EndPhaseProgressed(s, j) => EndPhaseComplete(s, i)

C12_ChainComplete == \A i \in EndPhases : EndPhaseComplete(scene, i)

(* C13: in the end sequence the health bar starts from width 96, its width *)
(* never increases, and once end_scene_health_bar_duration ms have         *)
(* accumulated its width is exactly 0 and its colour exactly the red       *)
(* endpoint (0xF8, 0x58, 0x38).                                            *)
C13_HealthBarShrinksToRed ==
    [][ /\ (~scene.end_scene_active /\ scene'.end_scene_active)
              => rect_width(scene) = 96 /\ rect_width(scene') <= 96
        /\ (scene.end_scene_active /\ scene'.end_scene_active)
              => rect_width(scene') <= rect_width(scene)
        /\ (scene'.end_scene_active
            /\ scene'.end_scene_health_bar_timer >= end_scene_health_bar_duration)
              => rect_width(scene') = 0 /\ rect_color(scene') = <<248, 88, 56>> ]_vars

(* The health-bar timer has run past its duration.                         *)
C13_HealthBarPastDuration ==
    /\ scene.end_scene_active
    /\ scene.end_scene_health_bar_timer > end_scene_health_bar_duration
    /\ rect_width(scene) = 0

(* C14: during the black fade-in of the end sequence the fade alpha of the *)
(* battle elements equals 255 minus the alpha of the black background, in  *)
(* every state and for every value of the timer.                           *)
C14_AlphasSumTo255 ==
    scene.end_scene_black_bg_active =>
        scene.end_scene_elements_fade_alpha + scene.end_scene_black_bg_alpha = 255

(* The rate-based animated values that are past their targets in state s. *)
(* Grass and stat panel slide right, water, opponent and trainer slide     *)
(* left, the cutscene sprite flies down, the dialog and the player's       *)
(* creature slide up, the move menu slides down.                           *)
PastTarget(s) ==
    { e \in {"grass"} : s.battle_grass_left_x > U(battle_grass_left_target_x) }
    \cup { e \in {"pokemonstat"} : s.battle_pokemonstat_x > U(battle_pokemonstat_target_x) }
    \cup { e \in {"water"} : s.battle_water_x < U(battle_water_target_x) }
    \cup { e \in {"lugia"} :
             s.move_used_state = "none" /\ s.battle_lugia_x < U(battle_lugia_target_x) }
    \cup { e \in {"trainer"} :
             /\ s.battle_trainer_visible /\ ~s.battle_trainer_slide_out
             /\ s.battle_trainer_x < U(battle_trainer_target_x) }
    \cup { e \in {"trainer_out"} : s.battle_trainer_x < U(0 - 180) }
    \cup { e \in {"lugia_y"} : s.lugia_y > 2 * lugia_target_y }
    \cup { e \in {"dialog"} : s.dialog_slide_y < dialog_target_y }
    \cup { e \in {"move_menu"} : s.move_used_ui_slide_y > move_used_ui_target_y }
    \cup { e \in {"venu"} :
             /\ s.move_used_state = "none" /\ "battle_venu_y" \in s.attrs
             /\ s.battle_venu_y < U(battle_venu_target_y) }

(* C15: no rate-based animated value is past its target in any reachable   *)
(* state: each stops exactly at the target and never overshoots it, not    *)
(* even for one tick.                                                      *)
C15_NeverPastTarget == PastTarget(scene) = {}

(* The duration-based animators: whether the phase is running, its timer,  *)
(* its duration, whether its values lie between start and target, and      *)
(* whether the values of state s2 are the targets.  A long frame can end   *)
(* one phase and start the next, so the targets are those of s2.           *)
Animators == {"creature", "opponent", "fade_out", "health_bar", "black_bg", "backdrop"}

AnimActive(s, a) ==
    CASE a = "creature" -> s.venusaur_move_back
      [] a = "opponent" -> s.lugia_move_back /\ s.battle_lugia_visible /\ battle_lugia
      [] a = "fade_out" -> s.fade_out_after_shake
      [] a = "health_bar" ->
            /\ s.end_scene_active
            /\ s.end_scene_health_bar_timer < end_scene_health_bar_duration
      [] a = "black_bg" -> s.end_scene_black_bg_active
      [] a = "backdrop" -> s.end_scene_bg_active /\ assets.end_scene_bg_w > 0

AnimTimer(s, a) ==
    CASE a = "creature" -> s.venusaur_move_back_timer
      [] a = "opponent" -> s.lugia_move_back_timer
      [] a = "fade_out" -> s.fade_out_timer
      [] a = "health_bar" -> s.end_scene_health_bar_timer
      [] a = "black_bg" -> s.end_scene_black_bg_timer
      [] a = "backdrop" -> s.end_scene_bg_slide_timer

AnimDuration(a) ==
    CASE a = "creature" -> venusaur_move_back_duration
      [] a = "opponent" -> lugia_move_back_duration
      [] a = "fade_out" -> fade_out_duration
      [] a = "health_bar" -> end_scene_health_bar_duration
      [] a = "black_bg" -> end_scene_black_bg_duration
      [] a = "backdrop" -> end_scene_bg_slide_duration

Between(x, a, b) == (a <= x /\ x <= b) \/ (b <= x /\ x <= a)

AnimInRange(s1, s2, a) ==
    CASE a = "creature" ->
            /\ Between(s2.battle_venu_x, s1.venusaur_move_back_start_x, s1.venusaur_original_x)
            /\ Between(s2.battle_venu_y, s1.venusaur_move_back_start_y, s1.venusaur_original_y)
      [] a = "opponent" ->
            /\ Between(s2.battle_lugia_y, s1.lugia_move_back_start_y,
                       s1.lugia_move_back_target_y)
            /\ Between(s2.battle_lugia_alpha, 0, 255)
      [] a = "fade_out" ->
            /\ Between(s2.attack_pulse_end_alpha, 0, 255)
            /\ Between(s2.black_block_fade_out_alpha, 0, 255)
      [] a = "health_bar" ->
            Between(s2.end_scene_health_bar_width, 0, end_scene_health_bar_initial_width)
      [] a = "black_bg" ->
            /\ Between(s2.end_scene_black_bg_alpha, 0, 255)
            /\ Between(s2.end_scene_elements_fade_alpha, 0, 255)
      [] a = "backdrop" ->
            Between(s2.end_scene_bg_x, end_scene_bg_start_x, end_scene_bg_end_x)

AnimArrived(s1, s2, a) ==
    CASE a = "creature" ->
            /\ s2.battle_venu_x = s2.venusaur_original_x
            /\ s2.battle_venu_y = s2.venusaur_original_y
      [] a = "opponent" ->
            /\ s2.battle_lugia_x = s2.lugia_move_back_target_x
            /\ s2.battle_lugia_y = s2.lugia_move_back_target_y
            /\ s2.battle_lugia_alpha = 255
      [] a = "fade_out" ->
            s2.attack_pulse_end_alpha = 0 /\ s2.black_block_fade_out_alpha = 0
      [] a = "health_bar" -> s2.end_scene_health_bar_width = 0
      [] a = "black_bg" ->
            s2.end_scene_black_bg_alpha = 255 /\ s2.end_scene_elements_fade_alpha = 0
      [] a = "backdrop" -> s2.end_scene_bg_x = end_scene_bg_end_x

(* The tick in which the progress reaches 1: the timer passes the duration, *)
(* or the phase is over and its timer already cleared when the tick ends.  *)
AnimReachesOne(s1, s2, a) ==
    /\ AnimActive(s1, a)
    /\ AnimTimer(s1, a) < AnimDuration(a)
    /\ AnimTimer(s2, a) >= AnimDuration(a) \/ ~AnimActive(s2, a)

(* C16: for each duration-based animator the progress never decreases      *)
(* while its phase is active and never exceeds 1 (the animated value stays *)
(* between start and target), and in the tick the progress reaches 1 the   *)
(* animated value equals its target exactly.                               *)
C16_DurationAnimators ==
    [][ \A a \in Animators :
          /\ (AnimActive(scene, a) /\ AnimActive(scene', a))
                => /\ AnimTimer(scene', a) >= AnimTimer(scene, a)
                   /\ AnimInRange(scene, scene', a)
          /\ (obs'.last = "tick" /\ AnimReachesOne(scene, scene', a))
                => AnimArrived(scene, scene', a) ]_vars

(* The backdrop slide has run past its duration and the backdrop is at     *)
(* its end position.                                                       *)
C16_BackdropArrived ==
    /\ AnimActive(scene, "backdrop")
    /\ AnimTimer(scene, "backdrop") > AnimDuration("backdrop")
    /\ AnimArrived(scene, scene, "backdrop")

(* C17: while the dialog is visible or the cutscene is in flight, a        *)
(* direction key pressed or released changes no movement flag and no       *)
(* facing direction, and a tick leaves the player's world position         *)
(* unchanged.                                                              *)
C17_LockedMovement ==
    [][ MovementLocked(scene) =>
          /\ obs'.last = "key" =>
                /\ scene'.moving_up = scene.moving_up
                /\ scene'.moving_down = scene.moving_down
                /\ scene'.moving_left = scene.moving_left
                /\ scene'.moving_right = scene.moving_right
                /\ scene'.current_direction = scene.current_direction
          /\ obs'.last = "tick" =>
                /\ scene'.player_world_x = scene.player_world_x
                /\ scene'.player_world_y = scene.player_world_y ]_vars

(* A key was pressed while the dialog was visible and a movement flag was  *)
(* still set from before the cutscene.                                     *)
C17_KeyWhileDialog ==
    /\ scene.dialog_visible /\ obs.last = "key"
    /\ scene.moving_up

(* The timers that are not zero although their phase is not running.      *)
StaleTimers(s) ==
    { n \in {"move_used_wait_timer"} :
         s.move_used_state # "dialog_showing" /\ s.move_used_wait_timer # 0 }
    \cup { n \in {"prompt_pulse_animation_timer"} :
             s.move_used_state # "fading_black" /\ s.prompt_pulse_animation_timer # 0 }
    \cup { n \in {"move_used_ui_slide_y"} :
             s.move_used_state = "none" /\ s.move_used_ui_slide_y # 0 }
    \cup { n \in {"screen_shake_timer"} :
             ~s.screen_shake_active /\ s.screen_shake_timer # 0 }
    \cup { n \in {"fade_out_timer"} :
             ~s.fade_out_after_shake /\ s.fade_out_timer # 0 }

(* C18: timers of inactive phases are zero: move_used_wait_timer outside   *)
(* dialog_showing, prompt_pulse_animation_timer outside fading_black, the  *)
(* move-menu slide offset in state none, screen_shake_timer and            *)
(* fade_out_timer while the shake and the fade-out are not running.        *)
C18_InactiveTimersZero == StaleTimers(scene) = {}

(* The cutscene states in order.                                           *)
LugiaRank(state) ==
    CASE state = "hidden" -> 0
      [] state = "flying_in" -> 1
      [] state = "animating" -> 2
      [] state = "stopped" -> 3

(* C19: between restarts the cutscene state only moves forward in the      *)
(* order hidden, flying_in, animating, stopped; it leaves hidden only on a *)
(* tick where the player's cell is in the trigger row under the sprite; it *)
(* plays each sprite frame once in increasing order; and the dialog        *)
(* becomes visible exactly in the tick the state becomes stopped.          *)
C19_CutsceneForwardOnly ==
    [][ obs'.last # "restart" =>
          /\ LugiaRank(scene'.lugia_state) \in
                 { LugiaRank(scene.lugia_state),
                   Min(LugiaRank(scene.lugia_state) + 1, 3) }
          /\ (scene.lugia_state = "hidden" /\ scene'.lugia_state # "hidden")
                => obs'.last = "tick" /\ under_lugia(scene')
          /\ (scene.lugia_state = "flying_in" /\ scene'.lugia_state = "animating")
                => scene'.lugia_current_frame = 0
          /\ (scene.lugia_state = "animating" /\ assets.lugia_sprites > 0)
                => /\ scene'.lugia_current_frame \in
                         { scene.lugia_current_frame,
                           Min(scene.lugia_current_frame + 1, assets.lugia_sprites - 1) }
                   /\ scene'.lugia_state = "stopped"
                         => scene.lugia_current_frame = assets.lugia_sprites - 1
          /\ (~scene.dialog_visible /\ scene'.dialog_visible)
                <=> (scene.lugia_state # "stopped" /\ scene'.lugia_state = "stopped") ]_vars

(* The animation has stopped on the last of several frames and the dialog  *)
(* is visible.                                                             *)
C19_StoppedOnLastFrame ==
    /\ scene.lugia_state = "stopped" /\ scene.dialog_visible
    /\ assets.lugia_sprites = 5 /\ scene.lugia_current_frame = 4

(* C20: when the cry sound is loaded the cutscene cry is played exactly    *)
(* once between construction or a restart and the next restart: in the     *)
(* tick the cutscene sprite first shows its last frame, and never again.   *)
C20_CryExactlyOnce ==
    [][ assets.sfx =>
          /\ obs'.cries <= 1
          /\ obs'.cries > obs.cries
                => /\ scene'.lugia_state \in {"animating", "stopped"}
                   /\ scene'.lugia_current_frame = assets.lugia_sprites - 1
          /\ ( /\ obs'.last = "tick" /\ scene'.lugia_state \in {"animating", "stopped"}
               /\ scene.lugia_current_frame # assets.lugia_sprites - 1
               /\ scene'.lugia_current_frame = assets.lugia_sprites - 1 )
                => obs.cries = 0 /\ obs'.cries = 1
          /\ scene'.lugia_state = "stopped" => obs'.cries = 1 ]_vars

(* The cry has been played in this play-through, after a restart.          *)
C20_CryAfterRestart ==
    /\ assets.sfx /\ obs.restarts = 1 /\ obs.cries = 1
    /\ scene.lugia_state = "stopped"

(* The fade to the battle starts; the dialog is ready for it.              *)
FadeStarts == scene.fade_state = "none" /\ scene'.fade_state # "none"

DialogReady(s) ==
    /\ s.fade_state = "none" /\ s.dialog_visible /\ s.dialog_fully_visible
    /\ s.lugia_animation_complete /\ assets.fighting_background

MoveUsedSteps ==
    { <<"none", "sliding_down">>, <<"sliding_down", "dialog_showing">>,
      <<"dialog_showing", "fading_black">>, <<"fading_black", "none">> }

(* C22: after the enabled move is selected move_used_state passes through  *)
(* sliding_down, dialog_showing and fading_black in exactly that order;    *)
(* dialog_showing is entered in the tick the menu slide offset reaches the *)
(* screen height, and fading_black only once at least 1500 ms have         *)
(* accumulated in dialog_showing.                                          *)
C22_MoveUsedOrder ==
    [][ obs'.last # "restart" =>
          /\ scene'.move_used_state # scene.move_used_state
                => <<scene.move_used_state, scene'.move_used_state>> \in MoveUsedSteps
          /\ (scene.move_used_state = "none" /\ scene'.move_used_state = "sliding_down")
                => obs'.last = "click" /\ scene'.move_used_dialog_text # ""
          /\ (scene.move_used_state = "sliding_down"
                 /\ scene'.move_used_state = "dialog_showing")
                <=> ( /\ obs'.last = "tick" /\ scene.move_used_state = "sliding_down"
                      /\ scene.move_used_ui_slide_y < SCREEN_HEIGHT
                      /\ scene'.move_used_ui_slide_y = SCREEN_HEIGHT )
          /\ (scene.move_used_state = "dialog_showing"
                 /\ scene'.move_used_state = "fading_black")
                => obs'.showing >= move_used_wait_duration ]_vars

(* fading_black has just been entered after a long frame in                *)
(* dialog_showing.                                                         *)
C22_EnteredFadingBlack ==
    /\ scene.move_used_state = "fading_black" /\ obs.move_used_state = "fading_black"
    /\ obs.showing = move_used_wait_duration /\ obs.hitches = 1
    /\ scene.prompt_pulse_animation_timer = 0

(* The charge animation moves forward: its frame or its accumulator grows. *)
ChargeAdvances ==
    \/ scene'.prompt_pulse_charge_current_frame > scene.prompt_pulse_charge_current_frame
    \/ scene'.prompt_pulse_charge_animation_time > scene.prompt_pulse_charge_animation_time

(* The charge frame index passes the last frame.                           *)
ChargePasses ==
    /\ scene.prompt_pulse_charge_current_frame < assets.prompt_pulse_charge_frames
    /\ scene'.prompt_pulse_charge_current_frame >= assets.prompt_pulse_charge_frames

(* The charge advances only from a centred creature, and no move-back is   *)
(* started before the charge has passed its last frame.                    *)
ChargeGatesMoveBack ==
    /\ ChargeAdvances => obs'.last = "tick" /\ scene.venusaur_centered
    /\ (~scene.venusaur_move_back /\ scene'.venusaur_move_back) => ChargePasses
    /\ (~scene.lugia_move_back /\ scene'.lugia_move_back)
          => scene'.prompt_pulse_charge_complete
    /\ ChargePasses => scene'.prompt_pulse_charge_complete /\ ~scene'.venusaur_centered

(* C23: the charge animation advances only while the player's creature is  *)
(* centred, and in the tick the charge frame index passes the last frame   *)
(* both move-backs are started together, venusaur_move_back and            *)
(* lugia_move_back both true and both timers 0; neither starts earlier.    *)
C23_MoveBacksStartAtZero ==
    [][ /\ ChargeGatesMoveBack
        /\ ChargePasses =>
              /\ scene'.venusaur_move_back /\ scene'.lugia_move_back
              /\ scene'.venusaur_move_back_timer = 0
              /\ scene'.lugia_move_back_timer = 0 ]_vars

(* C23, amended: the charge animation advances only while the player's     *)
(* creature is centred; in the tick the charge frame index passes the last *)
(* frame both move-backs are started, the opponent's with timer 0 and the  *)
(* creature's already advanced by that tick's elapsed time (finished at    *)
(* once when that time is at least venusaur_move_back_duration); neither   *)
(* starts earlier.                                                         *)
C23_MoveBacksStartTogether ==
    [][ /\ ChargeGatesMoveBack
        /\ ChargePasses =>
              /\ scene'.lugia_move_back /\ scene'.lugia_move_back_timer = 0
              /\ scene'.venusaur_move_back_timer = obs'.dt
              /\ scene'.venusaur_move_back = (obs'.dt < venusaur_move_back_duration)
              /\ ~scene'.venusaur_move_back
                    => /\ scene'.battle_venu_x = scene'.venusaur_original_x
                       /\ scene'.battle_venu_y = scene'.venusaur_original_y ]_vars

(* The state after the tick in which the charge passed its last frame.     *)
C23_ChargeJustCompleted ==
    /\ obs.last = "tick" /\ scene.move_used_state = "fading_black"
    /\ scene.prompt_pulse_charge_complete
    /\ scene.prompt_pulse_charge_current_frame = assets.prompt_pulse_charge_frames
    /\ scene.venusaur_move_back /\ scene.lugia_move_back
    /\ scene.venusaur_move_back_timer = obs.dt /\ scene.lugia_move_back_timer = 0

(* The screen shake is started: its once-only flag is raised.              *)
ShakeStarts ==
    ~scene.screen_shake_triggered_after_pulse /\ scene'.screen_shake_triggered_after_pulse

(* The opponent's move-back to the screen centre finishes in this tick.    *)
DescentFinishes ==
    /\ obs'.last = "tick" /\ LugiaDescends(scene) /\ scene.fade_state = "faded"
    /\ scene.lugia_move_back_timer + obs'.dt >= lugia_move_back_duration

(* C24: the screen shake is started at most once per attack sequence,      *)
(* exactly in the tick the opponent's move-back to the screen centre       *)
(* finishes and never while that move-back is still running, and it stays  *)
(* active until its timer reaches screen_shake_duration.                   *)
C24_ShakeOncePerAttack ==
    [][ /\ ShakeStarts => DescentFinishes
        /\ (~scene.screen_shake_active /\ scene'.screen_shake_active) => ShakeStarts
        /\ (DescentFinishes /\ ~scene.screen_shake_triggered_after_pulse) =>
              /\ scene'.screen_shake_triggered_after_pulse \/ AttackCompletes
              /\ ~scene'.lugia_move_back \/ scene'.fade_out_after_shake
              /\ scene'.screen_shake_timer = obs'.dt
              /\ scene'.screen_shake_active = (obs'.dt < screen_shake_duration)
        /\ (scene.screen_shake_triggered_after_pulse
               /\ ~scene'.screen_shake_triggered_after_pulse)
              => obs'.last = "restart" \/ AttackCompletes
        /\ scene'.screen_shake_active =>
              /\ scene'.screen_shake_timer < screen_shake_duration
              /\ ~LugiaDescends(scene')
              /\ scene'.move_used_state = "fading_black"
        /\ (scene.screen_shake_active /\ obs'.last = "tick") =>
              /\ scene'.screen_shake_timer = scene.screen_shake_timer + obs'.dt
              /\ scene'.screen_shake_active
                    = (scene'.screen_shake_timer < screen_shake_duration) ]_vars

(* The shake has run its whole second and has just ended.                  *)
C24_ShakeJustEnded ==
    /\ obs.last = "tick" /\ obs.dt < screen_shake_duration
    /\ scene.screen_shake_triggered_after_pulse /\ ~scene.screen_shake_active
    /\ scene.screen_shake_timer >= screen_shake_duration
    /\ scene.screen_shake_timer < screen_shake_duration + obs.dt
    /\ scene.fade_out_after_shake

(* The fight menu takes the click at (x, y) of state s as a button press.  *)
FightMenuTakes(s, x, y) ==
    /\ fight_ui /\ s.fade_state = "faded" /\ s.current_screen = "battle"
    /\ ~s.combat_ui_visible /\ s.move_used_state = "none"
    /\ ~s.run_text_visible /\ ~s.full_hp_text_visible
    /\ FightCell(x, y) # << >>

FightLabel(x, y) ==
    fight_ui_labels[FightCell(x, y)[1] * fight_ui_grid_cols + FightCell(x, y)[2] + 1]

(* The step is a click at (x, y).                                          *)
ClickedAt(x, y) ==
    obs'.last = "click" /\ scene' = mouse_down(scene, x, y)

(* C25: clicking Run never leaves the battle: it only shows the warning    *)
(* text and highlights the Run cell, leaving fade_state, current_screen,   *)
(* move_used_state and combat_ui_visible unchanged, and the next mouse     *)
(* click anywhere only dismisses the warning and has no other effect.      *)
C25_RunOnlyWarns ==
    [][ \A p \in MenuPoints :
          ClickedAt(p[1], p[2]) =>
            /\ (FightMenuTakes(scene, p[1], p[2]) /\ FightLabel(p[1], p[2]) = "RUN") =>
                  /\ scene' = [scene EXCEPT
                                 !.run_text_visible = TRUE,
                                 !.run_text_alpha = 255,
                                 !.fight_ui_selected_cell = FightCell(p[1], p[2]),
                                 !.played = IF assets.sfx THEN {"denied"} ELSE {}]
                  /\ scene'.fight_ui_selected_cell = <<1, 1>>
            /\ scene.run_text_visible =>
                  scene' = [scene EXCEPT !.run_text_visible = FALSE,
                                         !.fight_ui_selected_cell = << >>,
                                         !.played = {}]
            /\ (~scene.run_text_visible /\ scene'.run_text_visible) =>
                  FightMenuTakes(scene, p[1], p[2]) /\ FightLabel(p[1], p[2]) = "RUN" ]_vars

(* Run has just been clicked in the battle menu.                           *)
C25_RunWarningShown ==
    /\ obs.last = "click" /\ scene.run_text_visible /\ scene.run_text_alpha = 255
    /\ scene.fight_ui_selected_cell = <<1, 1>> /\ scene.played = {"denied"}
    /\ scene.fade_state = "faded" /\ scene.current_screen = "battle"
    /\ scene.move_used_state = "none" /\ ~scene.combat_ui_visible

(* The move menu takes the click at (x, y) of state s as a move.           *)
MoveMenuTakes(s, x, y) ==
    /\ ~s.run_text_visible /\ ~s.full_hp_text_visible
    /\ s.combat_ui_visible /\ combat_ui /\ s.fade_state = "faded"
    /\ CombatMoveIndex(x, y) >= 0
    /\ CombatMoveIndex(x, y) < Len(combat_ui_move_labels)

MoveName(x, y) == combat_ui_move_labels[CombatMoveIndex(x, y) + 1]

DisabledMoves == {"Context Recall", "Syntax Slash", "Debug Dash"}

(* C26: in the move menu a click on any of the three disabled moves leaves *)
(* move_used_state 'none' and the move menu open; only a click on Prompt   *)
(* Pulse starts the move-used sequence, closing the move menu and setting  *)
(* the move-used dialog text.                                              *)
C26_OnlyPromptPulseStarts ==
    [][ \A p \in MenuPoints :
          ClickedAt(p[1], p[2]) =>
            /\ (MoveMenuTakes(scene, p[1], p[2]) /\ MoveName(p[1], p[2]) \in DisabledMoves) =>
                  /\ scene.move_used_state = "none"
                  /\ scene' = [scene EXCEPT
                                 !.played = IF assets.sfx THEN {"denied"} ELSE {}]
            /\ (MoveMenuTakes(scene, p[1], p[2]) /\ MoveName(p[1], p[2]) = "Prompt Pulse") =>
                  /\ scene.move_used_state = "none"
                  /\ scene'.move_used_state = "sliding_down"
                  /\ ~scene'.combat_ui_visible
                  /\ scene'.move_used_dialog_text = "Cursaur used Prompt Pulse!"
            /\ scene'.move_used_state # scene.move_used_state =>
                  MoveMenuTakes(scene, p[1], p[2]) /\ MoveName(p[1], p[2]) = "Prompt Pulse"
    ]_vars

(* A disabled move has just been clicked in the open move menu.            *)
C26_DisabledMoveDenied ==
    /\ obs.last = "click" /\ scene.played = {"denied"}
    /\ scene.combat_ui_visible /\ scene.move_used_state = "none"
    /\ ~scene.run_text_visible /\ scene.move_used_dialog_text = ""

(* The Bag or Pokemon sub-screen is open.                                  *)
SubScreenOpen(s) == s.current_screen \in {"bag", "pokemon"}

(* A click outside the USE box of an open sub-screen returns to the battle *)
(* and changes nothing else but the sounds played.                         *)
OutsideClickDismisses(x, y) ==
    (SubScreenOpen(scene) /\ ~clicking_on_text_box(x, y)) =>
        scene' = [scene EXCEPT
                    !.current_screen = "battle",
                    !.played = IF assets.sfx /\ scene.current_screen = "bag"
                               THEN {"press_ab"} ELSE {}]

(* C27: while the Bag or Pokemon sub-screen is open, a click outside the   *)
(* functional hot-zone returns current_screen to 'battle' and changes      *)
(* nothing else, and a click on the hot-zone does not dismiss the          *)
(* sub-screen.                                                             *)
C27_HotZoneKeepsSubScreen ==
    [][ \A p \in MenuPoints :
          ClickedAt(p[1], p[2]) =>
            /\ OutsideClickDismisses(p[1], p[2])
            /\ (SubScreenOpen(scene) /\ clicking_on_text_box(p[1], p[2])) =>
                  scene'.current_screen = scene.current_screen ]_vars

(* C27, amended: while the Bag or Pokemon sub-screen is open every click   *)
(* returns current_screen to 'battle'; a click outside the hot-zone        *)
(* changes nothing else, a click on the hot-zone of the Bag screen also    *)
(* shows the full-HP text and highlights the BAG cell, and a click on the  *)
(* hot-zone of the Pokemon screen changes nothing else.                    *)
C27_EveryClickDismisses ==
    [][ \A p \in MenuPoints :
          ClickedAt(p[1], p[2]) =>
            /\ OutsideClickDismisses(p[1], p[2])
            /\ (scene.current_screen = "bag" /\ clicking_on_text_box(p[1], p[2])) =>
                  scene' = [scene EXCEPT
                              !.current_screen = "battle",
                              !.full_hp_text_visible = TRUE,
                              !.full_hp_text_alpha = 255,
                              !.fight_ui_selected_cell = <<0, 1>>,
                              !.played = IF assets.sfx THEN {"denied"} ELSE {}]
            /\ (scene.current_screen = "pokemon" /\ clicking_on_text_box(p[1], p[2])) =>
                  scene' = [scene EXCEPT
                              !.current_screen = "battle",
                              !.played = IF assets.sfx THEN {"press_ab"} ELSE {}]
            /\ scene.current_screen # scene'.current_screen =>
                  \/ SubScreenOpen(scene) /\ scene'.current_screen = "battle"
                  \/ /\ FightMenuTakes(scene, p[1], p[2])
                     /\ FightLabel(p[1], p[2]) \in {"BAG", "POKEMON"} ]_vars

(* The USE box of the Bag screen has just been clicked.                    *)
C27_UseClickedInBag ==
    /\ obs.last = "click" /\ scene.current_screen = "battle"
    /\ scene.full_hp_text_visible /\ scene.full_hp_text_alpha = 255
    /\ scene.fight_ui_selected_cell = <<0, 1>> /\ scene.played = {"denied"}

(* The camera that puts the point (x, y) of the map in the middle of the   *)
(* screen, kept inside the map.                                            *)
CameraFor(x, y) ==
    << Clamp(x - SCREEN_WIDTH \div 2, 0, Max(0, map_width - SCREEN_WIDTH)),
       Clamp(y - SCREEN_HEIGHT \div 2, 0, Max(0, map_height - SCREEN_HEIGHT)) >>

(* C28: after every tick the camera equals, on each axis, the player's     *)
(* centre minus half the screen size, clamped to the range from 0 to the   *)
(* map size minus the screen size.                                         *)
C28_CameraCentresPlayer ==
    obs.last = "tick" =>
        /\ <<scene.camera_x, scene.camera_y>>
              = CameraFor(scene.player_world_x + player_width \div 2,
                          scene.player_world_y + player_height \div 2)
        /\ 0 <= scene.camera_x /\ scene.camera_x + SCREEN_WIDTH <= map_width
        /\ 0 <= scene.camera_y /\ scene.camera_y + SCREEN_HEIGHT <= map_height

(* What the camera follows instead: the top-left corner of the player.     *)
C28_CameraFollowsCorner ==
    obs.last = "tick" =>
        /\ <<scene.camera_x, scene.camera_y>>
              = CameraFor(scene.player_world_x, scene.player_world_y)
        /\ 0 <= scene.camera_x /\ scene.camera_x + SCREEN_WIDTH <= map_width
        /\ 0 <= scene.camera_y /\ scene.camera_y + SCREEN_HEIGHT <= map_height

(* A movement flag is set.                                                 *)
MovementFlag(s) == s.moving_up \/ s.moving_down \/ s.moving_left \/ s.moving_right

(* C29: the player sprite's frame index is always within 0..3; it advances *)
(* cyclically, and only on ticks where a movement flag is set and movement *)
(* is not locked; after any tick in which the player is not moving or      *)
(* movement is locked by the cutscene or dialog the frame index is 0.      *)
C29_SpriteFrame ==
    [][ /\ scene'.sprite_current_frame \in 0..3
        /\ scene'.sprite_current_frame # scene.sprite_current_frame => obs'.last = "tick"
        /\ (scene'.sprite_current_frame # scene.sprite_current_frame
               /\ scene'.sprite_current_frame # 0)
              => /\ MovementFlag(scene) /\ ~MovementLocked(scene)
                 /\ scene'.sprite_current_frame = scene.sprite_current_frame + 1
        /\ (obs'.last = "tick" /\ MovementFlag(scene) /\ ~MovementLocked(scene))
              => scene'.sprite_current_frame
                    \in { scene.sprite_current_frame,
                          (scene.sprite_current_frame + 1) % 4 }
        /\ (obs'.last = "tick" /\ (~MovementFlag(scene) \/ MovementLocked(scene)))
              => scene'.sprite_current_frame = 0 ]_vars

(* The first tick of the cutscene lock with the Up key still held: the     *)
(* walk cycle, which had advanced, is back on frame 0.                     *)
C29_IdleWhileLocked ==
    /\ obs.last = "tick" /\ scene.moving_up /\ MovementLocked(scene)
    /\ scene.sprite_current_frame = 0 /\ scene.lugia_state # "hidden"
    /\ ~scene.dialog_visible

(* The positions in the call list of the calls of one hook.                *)
CallsOf(m, hook) == { i \in 1..Len(m.calls) : m.calls[i][1] = hook }

(* C30: change_scene(name) for a registered name calls on_exit on the      *)
(* previously active scene, if there is one and it defines it, strictly    *)
(* before on_enter on the new scene, and afterwards the active scene is    *)
(* the one registered under name; events, updates and renders are then     *)
(* forwarded to that scene only.                                           *)
C30_ChangeSceneHooks ==
    [][ LET name == manager'.op[2]
            prev == manager.current_scene
            new  == manager.scenes[name]
        IN  /\ (manager'.op[1] = "change_scene" /\ new # NoScene) =>
                  /\ manager'.current_scene = new
                  /\ manager'.current_scene_name = name
                  /\ manager'.scenes = manager.scenes
                  /\ CallsOf(manager', "on_exit") \cup CallsOf(manager', "on_enter")
                        = 1..Len(manager'.calls)
                  /\ Cardinality(CallsOf(manager', "on_exit"))
                        = IF prev # NoScene /\ prev.on_exit THEN 1 ELSE 0
                  /\ Cardinality(CallsOf(manager', "on_enter"))
                        = IF new.on_enter THEN 1 ELSE 0
                  /\ \A i \in CallsOf(manager', "on_exit") :
                        /\ manager'.calls[i][2] = prev.id
                        /\ \A j \in CallsOf(manager', "on_enter") : i < j
                  /\ \A j \in CallsOf(manager', "on_enter") :
                        manager'.calls[j][2] = new.id
            /\ manager'.op[1] \in ForwardedMethods =>
                  /\ manager'.calls =
                        IF manager.current_scene # NoScene
                        THEN << <<manager'.op[1], manager.current_scene.id>> >>
                        ELSE << >>
                  /\ manager'.current_scene = manager.current_scene
                  /\ manager'.current_scene_name = manager.current_scene_name
                  /\ manager'.scenes = manager.scenes ]_vars

(* A change from a scene that defines on_exit to another scene that        *)
(* defines on_enter has just been made.                                    *)
C30_ExitThenEnter ==
    /\ manager.op = <<"change_scene", "house_village">>
    /\ manager.calls = << <<"on_exit", 2>>, <<"on_enter", 1>> >>
    /\ manager.current_scene.id = 1
    /\ manager.scenes["house_village"].id = 1
    /\ manager.scenes["pokemon_selection"].id = 2

(* C39: change_scene(name) for a name that was never registered changes    *)
(* neither the active scene nor its name and calls no on_exit or on_enter  *)
(* hook.                                                                   *)
C39_UnknownNameIgnored ==
    [][ (manager'.op[1] = "change_scene" /\ manager.scenes[manager'.op[2]] = NoScene) =>
          /\ manager'.current_scene = manager.current_scene
          /\ manager'.current_scene_name = manager.current_scene_name
          /\ manager'.scenes = manager.scenes
          /\ manager'.calls = << >> ]_vars

(* change_scene has just been called with the name that is never           *)
(* registered while a scene with an on_exit hook is active.                *)
C39_UnknownWhileActive ==
    /\ manager.op = <<"change_scene", "character_selection">>
    /\ manager.scenes["character_selection"] = NoScene
    /\ manager.current_scene # NoScene /\ manager.current_scene.on_exit
    /\ manager.current_scene_name = "pokemon_selection"

(* C40: after any sequence of register_scene and change_scene calls,       *)
(* whenever a scene is active it is the scene currently registered under   *)
(* current_scene_name, including after a name is registered a second      *)
(* time.                                                                   *)
C40_ActiveIsRegistered ==
    manager.current_scene # NoScene =>
        /\ manager.current_scene_name \in SceneNames
        /\ manager.current_scene = manager.scenes[manager.current_scene_name]

(* The sheet is too small for one frame of the declared size.              *)
TooSmall(sheet, sprite_width, sprite_height) ==
    sheet # NoFile /\ (sheet[1] < sprite_width \/ sheet[2] < sprite_height)

(* C31: a sprite sheet too small for the declared frame size yields        *)
(* exactly one placeholder frame, never an empty frame list, for the       *)
(* generic sprite-sheet loader and for the cutscene sprite loader, so the  *)
(* animation that plays those frames still runs to completion.             *)
C31_PlaceholderNeverEmpty ==
    /\ assets.lugia_sprites >= 1
    /\ TooSmall(obs.probe, 132, 132) =>
          /\ assets.lugia_sprites = 1
          /\ \A row \in 0..3, col \in 0..3 :
                get_sprite(obs.probe, 132, 132, row, col) = "placeholder"
    /\ (scene.lugia_state \in {"animating", "stopped"} /\ obs.last = "tick")
          => scene.lugia_current_frame <= assets.lugia_sprites - 1

(* C32: in every reachable state at most one of the two battle dialog text *)
(* alphas is 255, and both stay within 0..255.                             *)
C32_OneDominantText ==
    /\ scene.battle_text_lugia_alpha \in 0..255
    /\ scene.battle_text_venusaur_alpha \in 0..255
    /\ ~(scene.battle_text_lugia_alpha = 255 /\ scene.battle_text_venusaur_alpha = 255)

(* The cross-fade after the attack is under way: the move-used text is     *)
(* gone and the creature's text is coming in.                              *)
C32_CrossFading ==
    /\ scene.battle_text_lugia_alpha = 0
    /\ scene.battle_text_venusaur_alpha \in 1..254
    /\ scene.move_used_dialog_text # "" /\ scene.end_scene_active

---------------------------------------------------------------------------
(* C33: in every reachable state the centre point of the player lies in a  *)
(* walkable cell, whatever keys, ticks and restarts came before.           *)
C33_CentreWalkable ==
    is_cell_walkable_check(CellX(scene.player_world_x), CellY(scene.player_world_y))

(* The player has walked away from the start and is pressed, key held,     *)
(* against a closed cell: the tick just taken left the position in place.  *)
C33_PressedAgainstWall ==
    /\ obs.last = "tick"
    /\ MoveDx(scene) # 0 \/ MoveDy(scene) # 0
    /\ ~ProposedWalkable(scene)
    /\ <<scene.player_world_x, scene.player_world_y>> # <<496, 368>>

---------------------------------------------------------------------------
(* C34: between two restarts the move-used sequence starts at most once,   *)
(* so the attack sequence never runs while the end sequence is active:     *)
(* end_scene_active implies move_used_state = "none".                      *)
C34_NoAttackInEndScene ==
    scene.end_scene_active => scene.move_used_state = "none"

---------------------------------------------------------------------------
(* C35: the battle menu accepts clicks only once it is shown: a click      *)
(* opens the move menu, a sub-screen or the Run warning only in a state    *)
(* where the fight menu alpha is 255.                                      *)
C35_MenuClicksOnlyWhenShown ==
    [][ ( /\ obs'.last = "click"
          /\ \/ ~scene.combat_ui_visible /\ scene'.combat_ui_visible
             \/ scene.current_screen = "battle" /\ scene'.current_screen # "battle"
             \/ ~scene.run_text_visible /\ scene'.run_text_visible )
        => scene.fight_ui_alpha = 255 ]_vars

---------------------------------------------------------------------------
(* C36: while fade_state is "fading", fade_alpha never decreases: no step, *)
(* a mouse click included, restarts the fade.                              *)
C36_FadeNeverRestarts ==
    [][ (scene.fade_state = "fading" /\ scene'.fade_state = "fading")
        => scene'.fade_alpha >= scene.fade_alpha ]_vars

---------------------------------------------------------------------------
(* C37: the attack sequence always terminates: once move_used_state is     *)
(* "fading_black", ticks alone eventually bring it back to "none" and      *)
(* start the end sequence, whichever optional images are present.          *)
C37_AttackTerminates ==
    (scene.move_used_state = "fading_black")
        ~> (scene.move_used_state = "none" /\ scene.end_scene_active)

---------------------------------------------------------------------------
(* C38: the battle begins only after the cutscene has finished: a          *)
(* fade_state other than "none" implies that the cutscene animation is     *)
(* complete and the dialog has been fully visible, and                     *)
(* battle_animations_started implies fade_state = "faded".                 *)
C38_BattleAfterCutscene ==
    /\ scene.fade_state # "none" =>
          scene.lugia_animation_complete /\ scene.dialog_fully_visible
    /\ scene.battle_animations_started => scene.fade_state = "faded"

(* The battle intro has just been started by the tick that completed the   *)
(* fade.                                                                   *)
C38_IntroJustStarted ==
    /\ obs.last = "tick" /\ scene.fade_state = "faded"
    /\ scene.battle_animations_started
    /\ scene.lugia_animation_complete /\ scene.dialog_fully_visible
    /\ scene.fade_alpha = 255 /\ obs.restarts > 0

====
